---- MODULE Spec2Model ----
(***************************************************************************)
(* Model of the AMS/TCP transport of the ADS client (src/ads/adsclient.py):*)
(* caller threads running execute / connect / close, the background reader *)
(* thread started by connect, the socket with the bytes the peer sends,    *)
(* and the shared fields of AdsClient.                                      *)
(***************************************************************************)
EXTENDS Integers, Sequences, FiniteSets, TLC

\* ------------------------------------------------------------------ bounds
NThreads == 2        \* caller threads
MaxOps == 2          \* public operations started over a run
MaxPeerWrites == 1   \* messages the peer writes over a run
MaxPrepare == 32770  \* prepare_command_invoke calls in the invoke-id run

\* symbol records in the PLC's symbol table
MaxSymbols == 2
\* largest byte offset the symbol table gives a symbol
MaxOffset == 3
\* symbols in a group handed to a batched read
MaxGroup == 3
\* an array dimension: largest lower index and largest hi - lo
MaxLow == 1
MaxSpan == 2
\* largest index in an array descriptor 'ARRAY [lo..hi] OF T'
MaxIndex == 12

\* ------------------------------------------------------- program constants
ADS_CHUNK_SIZE_DEFAULT == 1024
InvokeIdFirst == 32768       \* 0x8000
InvokeIdLast == 65535        \* 0xFFFF
TcpHeaderLen == 6
AmsHeaderLen == 32

\* ------------------------------------------------------------ identifiers
Threads == 1..NThreads
ReaderOf(s) == NThreads + s          \* the Thread object created for socket s
Readers == {ReaderOf(s) : s \in 1..MaxOps}
Procs == Threads \cup Readers
None == 0                            \* socket None / lock free / no attribute
NoPacket == << >>                    \* _current_packet is None

\* ------------------------------------------------------------------ bytes
Min(a, b) == IF a < b THEN a ELSE b

LE32(n) == << n % 256, (n \div 256) % 256, (n \div 65536) % 256,
              (n \div 16777216) % 256 >>

LE16(n) == << n % 256, (n \div 256) % 256 >>

UnLE32(b) == b[1] + 256 * b[2] + 65536 * b[3] + 16777216 * b[4]

Take(s, n) == SubSeq(s, 1, Min(n, Len(s)))

Drop(s, n) == SubSeq(s, Min(n, Len(s)) + 1, Len(s))

\* struct.pack('<HI', 0, len(amsData))
get_tcp_header(amsData) == << 0, 0 >> \o LE32(Len(amsData))

\* The AMS frame: 16 address bytes, command id, state flags, data_length,
\* error_code, invoke_id, payload.
AddrBytes == [i \in 1..16 |-> 0]

GetBinaryData(p) ==
    AddrBytes \o LE16(p.command_id) \o LE16(p.state_flags)
              \o LE32(Len(p.data)) \o LE32(p.error_code)
              \o LE32(p.invoke_id) \o p.data

get_tcp_packet(p) == get_tcp_header(GetBinaryData(p)) \o GetBinaryData(p)

\* AmsPacket.from_binary_data: << >> when the decoder rejects the bytes
\* (shorter than a header, or declared data_length disagreeing with the
\* bytes delivered), else <<packet>>.
from_binary_data(d) ==
    IF Len(d) < AmsHeaderLen THEN << >>
    ELSE IF UnLE32(SubSeq(d, 21, 24)) # Len(d) - AmsHeaderLen THEN << >>
    ELSE << [invoke_id  |-> UnLE32(SubSeq(d, 29, 32)),
             error_code |-> UnLE32(SubSeq(d, 25, 28)),
             data       |-> SubSeq(d, 33, Len(d))] >>

\* command.CreateResponse(responsePacket).Error: the leading u32 of the payload
CreateResponseError(p) == IF Len(p.data) < 4 THEN 0 ELSE UnLE32(SubSeq(p.data, 1, 4))


\* ------------------------------------------------------------------ state
VARIABLES
    socket,             \* self.socket: None or the id of a socket object
    closedSocks,        \* socket objects on which close() has been called
    nsock,              \* socket objects created so far
    stop_reading,       \* self._stop_reading (threading.Event)
    thread,             \* self._async_read_thread: None while the attribute is unset
    current_invoke_id,  \* self._current_invoke_id
    current_packet,     \* self._current_packet: NoPacket or <<packet>>
    ads_lock,           \* self._ads_lock: None or the holding thread
    pc,                 \* position of every caller thread and reader thread
    stk,                \* return labels of the calls in progress, per thread
    result,             \* how the last public operation of a thread ended
    kind,               \* the public operation a thread runs or ran last
    wasOpen,            \* whether the socket was set when that operation began
    reqId,              \* amspacket.invoke_id of the thread's request
    respId,             \* invoke_id of the packet await_command_invoke returned
    code,               \* AdsException.code of the error that ended the request (0: no numeric code)
    response,           \* read_ams_packet_from_socket's local buffer, per reader
    newPacket,          \* _async_read_fn's local newPacket, per reader
    rcvbuf,             \* bytes that arrived at the current socket, unread
    inflight,           \* segments the peer has written that have not yet arrived
    peer,               \* the peer's end: "none", "open", "eof", "reset"
    handed,             \* lengths of the byte strings handed to the AMS decoder
    sent,               \* invoke ids of the requests written on the current connection
    tperr,              \* callers that were awaiting when the reader met a transport error
    framingErr,         \* sockets on which the reader threw bytes away as not a frame
    malformed,          \* the peer wrote something that is not a frame on the connection
    nops,               \* public operations started
    npeer,              \* peer writes made
    nprepared,          \* prepare_command_invoke calls made
    phase,              \* symbol engine and codecs: "idle", "in" (inputs chosen), "out" (applied)
    tinfolist,          \* AdsSymbolList.tinfolist: type name -> TypeInfo
    sinfolist,          \* AdsSymbolList.sinfolist: the SymbolInfo records, in table order
    alignment,          \* AdsSymbolList.alignment
    db,                 \* AdsSymbolList.db: the Symbols, in dict order
    ninserted,          \* calls of AdsSymbolList.insert made by build_symbol_list
    failed,             \* the exception that ended the operation, "" when none
    group,              \* an AdsGroupSymbolList: [db, size]
    memseed,            \* what the PLC's memory holds (see PlcByte)
    called,             \* the batched read that was called, "" when none
    request,            \* the commands the batched read has issued, in order
    value,              \* AdsSymbol.value of the group's symbols: << >> is None
    dimensions,         \* AdsArrayTypeConvert.dimensions: the (lo, hi) of each dimension
    arg,                \* the value handed to AdsArrayTypeConvert.pack
    packed,             \* the bytes pack returned, << >> when it returned none
    unpacked,           \* what AdsArrayTypeConvert.unpack returned for those bytes
    adsdata,            \* the path and the type string of a type entry, decoded
    typeinfo            \* the AdsTypeInfo from_data made of it, << >> before

vars == << socket, closedSocks, nsock, stop_reading, thread, current_invoke_id,
           current_packet, ads_lock, pc, stk, result, kind, wasOpen, reqId,
           respId, code, response, newPacket, rcvbuf, inflight, peer,
           handed, sent, tperr, framingErr, malformed, nops, npeer,
           nprepared, phase, tinfolist, sinfolist, alignment, db, ninserted,
           failed, group, memseed, called, request, value, dimensions, arg,
           packed, unpacked, adsdata, typeinfo >>

fields == << socket, closedSocks, nsock, stop_reading, thread,
             current_invoke_id, current_packet >>
net == << rcvbuf, inflight, peer, npeer >>
locals == << reqId, respId, code, response, newPacket >>
hist == << kind, wasOpen, handed, sent, tperr, framingErr, malformed, nops,
          nprepared >>
\* the state of the symbol engine and of the codecs, which the transport
\* never touches
pure == << phase, failed, tinfolist, sinfolist, alignment, db, ninserted,
          group, memseed, called, request, value,
          dimensions, arg, packed, unpacked, adsdata, typeinfo >>

\* AdsClient.__init__
ClientInit ==
    /\ socket = None
    /\ closedSocks = {}
    /\ nsock = 0
    /\ stop_reading = FALSE
    /\ thread = None
    /\ current_invoke_id = InvokeIdFirst
    /\ current_packet = NoPacket
    /\ ads_lock = None
    /\ pc = [p \in Procs |-> IF p \in Threads THEN "idle" ELSE "r_none"]
    /\ stk = [p \in Procs |-> << >>]
    /\ result = [t \in Threads |-> "none"]
    /\ kind = [t \in Threads |-> "none"]
    /\ wasOpen = [t \in Threads |-> FALSE]
    /\ reqId = [t \in Threads |-> 0]
    /\ respId = [t \in Threads |-> 0]
    /\ code = [t \in Threads |-> 0]
    /\ response = [r \in Readers |-> << >>]
    /\ newPacket = [r \in Readers |-> NoPacket]
    /\ rcvbuf = << >>
    /\ inflight = << >>
    /\ peer = "none"
    /\ handed = << >>
    /\ sent = {}
    /\ tperr = {}
    /\ framingErr = {}
    /\ malformed = FALSE
    /\ nops = 0
    /\ npeer = 0
    /\ nprepared = 0

\* no symbol list, group or codec is in use
SymIdle ==
    /\ tinfolist = << >> /\ sinfolist = << >> /\ alignment = TRUE
    /\ db = << >> /\ ninserted = 0

\* no batched read is under way
BatchIdle ==
    /\ group = [db |-> << >>, size |-> 0] /\ memseed = 0
    /\ called = "" /\ request = << >> /\ value = << >>

\* no array codec is in use
CodecIdle ==
    /\ dimensions = << >> /\ arg = [kind |-> "none"]
    /\ packed = << >> /\ unpacked = << >>

\* no type entry is being parsed
ParseIdle ==
    /\ adsdata = [path |-> << >>, strtype |-> << >>] /\ typeinfo = << >>

Init ==
    /\ ClientInit
    /\ phase = "idle" /\ failed = ""
    /\ SymIdle /\ BatchIdle /\ CodecIdle /\ ParseIdle

\* ------------------------------------------------------------ control flow
Dead == {"done", "crashed"}
\* a reader thread that has been started and has not ended, in the
\* positions pcf
AliveIn(pcf, r) == pcf[r] \notin Dead \cup {"r_none", "r_unstarted"}

\* the thread moves to label L of the function it is in
Step(p, L) ==
    /\ pc' = [pc EXCEPT ![p] = L]
    /\ UNCHANGED << stk, result, ads_lock >>

\* the thread calls a function starting at L, to come back at retL
Call(p, L, retL) ==
    /\ pc' = [pc EXCEPT ![p] = L]
    /\ stk' = [stk EXCEPT ![p] = << retL >> \o @]
    /\ UNCHANGED << result, ads_lock >>

\* a public operation of a caller ends with outcome res; leaving execute's
\* with-block releases the lock
FinishFrom(pcb, p, res) ==
    /\ pc' = [pcb EXCEPT ![p] = "idle"]
    /\ stk' = [stk EXCEPT ![p] = << >>]
    /\ result' = [result EXCEPT ![p] = res]
    /\ ads_lock' = IF ads_lock = p THEN None ELSE ads_lock

Finish(p, res) == FinishFrom(pc, p, res)

\* an exception nobody catches ends the reader thread
Crash(r) ==
    /\ pc' = [pc EXCEPT ![r] = "crashed"]
    /\ stk' = [stk EXCEPT ![r] = << >>]
    /\ UNCHANGED << result, ads_lock >>

Raise(p, exc) == IF p \in Threads THEN Finish(p, exc) ELSE Crash(p)

\* the function returns to its caller; "fin_ok" is the return of a public
\* operation, "r_break" the break that ends _async_read_fn
RetFrom(pcb, p) ==
    LET L == Head(stk[p]) IN
    IF L = "fin_ok" THEN FinishFrom(pcb, p, "ok")
    ELSE /\ pc' = [pcb EXCEPT ![p] = IF L = "r_break" THEN "done" ELSE L]
         /\ stk' = [stk EXCEPT ![p] = Tail(@)]
         /\ UNCHANGED << result, ads_lock >>

Ret(p) == RetFrom(pc, p)

\* socket.close() on the socket object self.socket names: the connection
\* ends and its unread bytes are discarded
SockClose ==
    /\ closedSocks' = closedSocks \cup {socket}
    /\ IF socket = nsock
       THEN rcvbuf' = << >> /\ inflight' = << >> /\ peer' = "none"
       ELSE UNCHANGED << rcvbuf, inflight, peer >>

\* ------------------------------------------------------------------ close
\* if (self.socket is not None):
cl_check(p) ==
    /\ pc[p] = "cl_check"
    /\ IF socket # None THEN Step(p, "cl_set") ELSE Ret(p)
    /\ UNCHANGED << fields, net, locals, hist >>
    /\ UNCHANGED pure

\* self._stop_reading.set()
cl_set(p) ==
    /\ pc[p] = "cl_set"
    /\ stop_reading' = TRUE
    /\ Step(p, "cl_join")
    /\ UNCHANGED << socket, closedSocks, nsock, thread, current_invoke_id,
                    current_packet, net, locals, hist >>
    /\ UNCHANGED pure

\* variant: join returns without waiting for the reader's end
cl_join_NoWait(p) ==
    /\ pc[p] = "cl_join"
    /\ IF thread = None THEN Raise(p, "AttributeError") ELSE Step(p, "cl_sockclose")
    /\ UNCHANGED << fields, net, locals, hist >>
    /\ UNCHANGED pure

\* self._async_read_thread.join(), RuntimeError ignored: join of the current
\* thread or of a thread that was never started raises it; a missing
\* attribute raises AttributeError; otherwise join waits for the thread's end
cl_join(p) ==
    /\ pc[p] = "cl_join"
    /\ IF thread = None THEN Raise(p, "AttributeError")
       ELSE IF thread = p \/ pc[thread] = "r_unstarted" THEN Step(p, "cl_sockclose")
       ELSE pc[thread] \in Dead /\ Step(p, "cl_sockclose")
    /\ UNCHANGED << fields, net, locals, hist >>
    /\ UNCHANGED pure

\* self.socket.close()
cl_sockclose(p) ==
    /\ pc[p] = "cl_sockclose"
    /\ IF socket = None
       THEN Raise(p, "AttributeError") /\ UNCHANGED << closedSocks, rcvbuf, inflight, peer >>
       ELSE SockClose /\ Step(p, "cl_none")
    /\ UNCHANGED << socket, nsock, stop_reading, thread, current_invoke_id,
                    current_packet, npeer, locals, hist >>
    /\ UNCHANGED pure

\* self.socket = None
cl_none(p) ==
    /\ pc[p] = "cl_none"
    /\ socket' = None
    /\ Ret(p)
    /\ UNCHANGED << closedSocks, nsock, stop_reading, thread, current_invoke_id,
                    current_packet, net, locals, hist >>
    /\ UNCHANGED pure

close(p) == cl_check(p) \/ cl_set(p) \/ cl_join(p) \/ cl_sockclose(p) \/ cl_none(p)


\* ---------------------------------------------------------------- connect
\* connect() begins with self.close()
CallConnect(p, retL) ==
    /\ pc' = [pc EXCEPT ![p] = "cl_check"]
    /\ stk' = [stk EXCEPT ![p] = << "co_new", retL >> \o @]
    /\ UNCHANGED << result, ads_lock >>

\* self.socket = socket.socket(...); self.socket.settimeout(2)
co_new(p) ==
    /\ pc[p] = "co_new"
    /\ nsock' = nsock + 1
    /\ socket' = nsock + 1
    /\ rcvbuf' = << >> /\ inflight' = << >> /\ peer' = "none"
    /\ handed' = << >> /\ sent' = {} /\ framingErr' = {} /\ malformed' = FALSE
    /\ Step(p, "co_connect")
    /\ UNCHANGED << closedSocks, stop_reading, thread, current_invoke_id,
                    current_packet, npeer, locals, kind, wasOpen, tperr,
                    nops, nprepared >>
    /\ UNCHANGED pure

\* self.socket.connect((target_ip, ADS_PORT_DEFAULT)) succeeds
co_connect_ok(p) ==
    /\ pc[p] = "co_connect"
    /\ peer' = "open"
    /\ Step(p, "co_clear")
    /\ UNCHANGED << fields, rcvbuf, inflight, npeer, locals, hist >>
    /\ UNCHANGED pure

\* self.socket.connect(...) raises
co_connect_fail(p) ==
    /\ pc[p] = "co_connect"
    /\ Step(p, "co_fclose")
    /\ UNCHANGED << fields, net, locals, hist >>
    /\ UNCHANGED pure

\* except: self.socket.close()
co_fclose(p) ==
    /\ pc[p] = "co_fclose"
    /\ IF socket = None
       THEN Raise(p, "AttributeError") /\ UNCHANGED << closedSocks, rcvbuf, inflight, peer >>
       ELSE SockClose /\ Step(p, "co_fnone")
    /\ UNCHANGED << socket, nsock, stop_reading, thread, current_invoke_id,
                    current_packet, npeer, locals, hist >>
    /\ UNCHANGED pure

\* self.socket = None; raise PyadsException("Could not connect to device")
co_fnone(p) ==
    /\ pc[p] = "co_fnone"
    /\ socket' = None
    /\ Raise(p, "PyadsException")
    /\ UNCHANGED << closedSocks, nsock, stop_reading, thread, current_invoke_id,
                    current_packet, net, locals, hist >>
    /\ UNCHANGED pure

\* variant: the stop flag is left as close() set it
co_clear_Skip(p) ==
    /\ pc[p] = "co_clear"
    /\ Step(p, "co_thread")
    /\ UNCHANGED << fields, net, locals, hist >>
    /\ UNCHANGED pure

\* self._stop_reading.clear()
co_clear(p) ==
    /\ pc[p] = "co_clear"
    /\ stop_reading' = FALSE
    /\ Step(p, "co_thread")
    /\ UNCHANGED << socket, closedSocks, nsock, thread, current_invoke_id,
                    current_packet, net, locals, hist >>
    /\ UNCHANGED pure

\* self._async_read_thread = threading.Thread(target=self._async_read_fn)
co_thread(p) ==
    /\ pc[p] = "co_thread"
    /\ thread' = ReaderOf(nsock)
    /\ pc' = [pc EXCEPT ![p] = "co_start", ![ReaderOf(nsock)] = "r_unstarted"]
    /\ UNCHANGED << stk, result, ads_lock >>
    /\ UNCHANGED << socket, closedSocks, nsock, stop_reading, current_invoke_id,
                    current_packet, net, locals, hist >>
    /\ UNCHANGED pure

\* self._async_read_thread.start() starts the reader; connect returns
co_start_ok(p) ==
    /\ pc[p] = "co_start"
    /\ thread # None /\ pc[thread] = "r_unstarted"
    /\ RetFrom([pc EXCEPT ![thread] = "r_loop"], p)
    /\ UNCHANGED << fields, net, locals, hist >>
    /\ UNCHANGED pure

\* start() raises: raise Exception("Could not start read thread")
co_start_fail(p) ==
    /\ pc[p] = "co_start"
    /\ Raise(p, "Exception")
    /\ UNCHANGED << fields, net, locals, hist >>
    /\ UNCHANGED pure

connect(p) ==
    \/ co_new(p) \/ co_connect_ok(p) \/ co_connect_fail(p) \/ co_fclose(p)
    \/ co_fnone(p) \/ co_clear(p) \/ co_thread(p) \/ co_start_ok(p)
    \/ co_start_fail(p)


\* ------------------------------------------------------ public operations
\* connect() and close() are lifecycle calls that bracket the commands: one
\* runs only while no other caller is inside an operation.  execute may be
\* called by any number of threads at once.
Lifecycle(t) == pc[t] # "idle" /\ kind[t] \in {"connect", "close"}

\* the records of the operations that have ended are kept until the next
\* operation begins
Begin(t, k) ==
    /\ kind' = [u \in Threads |-> IF u = t THEN k ELSE IF pc[u] = "idle" THEN "none" ELSE kind[u]]
    /\ wasOpen' = [u \in Threads |-> IF u = t THEN socket # None
                                     ELSE IF pc[u] = "idle" THEN FALSE ELSE wasOpen[u]]
    /\ nops' = nops + 1
    /\ tperr' = {u \in tperr : u # t /\ pc[u] # "idle"}
    /\ reqId' = [u \in Threads |-> IF pc[u] = "idle" THEN 0 ELSE reqId[u]]
    /\ respId' = [u \in Threads |-> IF pc[u] = "idle" THEN 0 ELSE respId[u]]
    /\ code' = [u \in Threads |-> IF pc[u] = "idle" THEN 0 ELSE code[u]]
    /\ UNCHANGED << fields, net, response, newPacket, handed, sent,
                    framingErr, malformed, nprepared >>

\* the outcome records at the beginning of t's operation
BeginResult(t) == [u \in Threads |-> IF pc[u] = "idle" THEN "none" ELSE result[u]]

\* a thread calls execute(command)
StartExecute(t) ==
    /\ pc[t] = "idle" /\ nops < MaxOps
    /\ \A u \in Threads : ~Lifecycle(u)
    /\ pc' = [pc EXCEPT ![t] = "ex_lock"]
    /\ result' = BeginResult(t)
    /\ UNCHANGED << stk, ads_lock >>
    /\ Begin(t, "execute")
    /\ UNCHANGED pure

\* a thread calls connect()
StartConnect(t) ==
    /\ pc[t] = "idle" /\ nops < MaxOps
    /\ \A u \in Threads : pc[u] = "idle"
    /\ pc' = [pc EXCEPT ![t] = "cl_check"]
    /\ stk' = [stk EXCEPT ![t] = << "co_new", "fin_ok" >>]
    /\ result' = BeginResult(t)
    /\ UNCHANGED ads_lock
    /\ Begin(t, "connect")
    /\ UNCHANGED pure

\* a thread calls close()
StartClose(t) ==
    /\ pc[t] = "idle" /\ nops < MaxOps
    /\ \A u \in Threads : pc[u] = "idle"
    /\ pc' = [pc EXCEPT ![t] = "cl_check"]
    /\ stk' = [stk EXCEPT ![t] = << "fin_ok" >>]
    /\ result' = BeginResult(t)
    /\ UNCHANGED ads_lock
    /\ Begin(t, "close")
    /\ UNCHANGED pure

\* ---------------------------------------------------------------- execute
\* variant: the body is entered without waiting for the lock
ex_lock_NoWait(t) ==
    /\ pc[t] = "ex_lock"
    /\ ads_lock' = t
    /\ pc' = [pc EXCEPT ![t] = "sar_check"]
    /\ UNCHANGED << stk, result >>
    /\ UNCHANGED << fields, net, locals, hist >>
    /\ UNCHANGED pure

\* with self._ads_lock:  (packet = command.to_ams_packet(...) is local)
ex_lock(t) ==
    /\ pc[t] = "ex_lock"
    /\ ads_lock = None
    /\ ads_lock' = t
    /\ pc' = [pc EXCEPT ![t] = "sar_check"]
    /\ UNCHANGED << stk, result >>
    /\ UNCHANGED << fields, net, locals, hist >>
    /\ UNCHANGED pure

\* send_and_recv: if not self.is_connected: self.connect()
sar_check(t) ==
    /\ pc[t] = "sar_check"
    /\ IF socket = None THEN CallConnect(t, "sar_prep") ELSE Step(t, "sar_prep")
    /\ UNCHANGED << fields, net, locals, hist >>
    /\ UNCHANGED pure

\* variant: a plain 16-bit increment, which wraps to 0
NextInvokeId_Wrap16(id) == (id + 1) % 65536

\* prepare_command_invoke: the next invoke id
NextInvokeId(id) == IF id < InvokeIdLast THEN id + 1 ELSE InvokeIdFirst

\* prepare_command_invoke: if/else on self._current_invoke_id
sar_prep(t) ==
    /\ pc[t] = "sar_prep"
    /\ current_invoke_id' = NextInvokeId(current_invoke_id)
    /\ nprepared' = nprepared + 1
    /\ Step(t, "sar_clear")
    /\ UNCHANGED << socket, closedSocks, nsock, stop_reading, thread,
                    current_packet, net, locals, kind, wasOpen, handed, sent,
                    tperr, framingErr, malformed, nops >>
    /\ UNCHANGED pure

\* self._current_packet = None; amspacket.invoke_id = self._current_invoke_id
sar_clear(t) ==
    /\ pc[t] = "sar_clear"
    /\ current_packet' = NoPacket
    /\ reqId' = [reqId EXCEPT ![t] = current_invoke_id]
    /\ Step(t, "sar_send")
    /\ UNCHANGED << socket, closedSocks, nsock, stop_reading, thread,
                    current_invoke_id, net, respId, code, response, newPacket, hist >>
    /\ UNCHANGED pure

\* self.socket.send(self.get_tcp_packet(amspacket)) writes the frame
sar_send_ok(t) ==
    /\ pc[t] = "sar_send"
    /\ socket # None /\ socket \notin closedSocks /\ peer # "reset"
    /\ sent' = sent \cup {reqId[t]}
    /\ Step(t, "aw_check")
    /\ UNCHANGED << fields, net, locals, kind, wasOpen, handed, tperr,
                    framingErr, malformed, nops, nprepared >>
    /\ UNCHANGED pure

\* send raises (socket None, closed, or a socket error):
\* except Exception: self.close(); raise PyadsException
sar_send_fail(t) ==
    /\ pc[t] = "sar_send"
    /\ Call(t, "cl_check", "sar_raise")
    /\ UNCHANGED << fields, net, locals, hist >>
    /\ UNCHANGED pure

\* raise PyadsException("Could not communicate with device")
sar_raise(t) ==
    /\ pc[t] = "sar_raise"
    /\ Raise(t, "PyadsException")
    /\ UNCHANGED << fields, net, locals, hist >>
    /\ UNCHANGED pure

\* await_command_invoke: while (self._current_packet is None) ends; a turn
\* of the loop that sleeps within the budget changes nothing
aw_check(t) ==
    /\ pc[t] = "aw_check"
    /\ current_packet # NoPacket
    /\ Step(t, "aw_return")
    /\ UNCHANGED << fields, net, locals, hist >>
    /\ UNCHANGED pure

\* variant: the expiry also drops the socket
aw_timeout_Drop(t) ==
    /\ pc[t] = "aw_check"
    /\ current_packet = NoPacket
    /\ Raise(t, "AdsTimeout")
    /\ socket' = None
    /\ UNCHANGED << closedSocks, nsock, stop_reading, thread, current_invoke_id,
                    current_packet, net, locals, hist >>
    /\ UNCHANGED pure

\* the slot is still None and the budget is used up:
\* if (timeout > 10): raise AdsException("Timout: ...")
aw_timeout(t) ==
    /\ pc[t] = "aw_check"
    /\ current_packet = NoPacket
    /\ Raise(t, "AdsTimeout")
    /\ UNCHANGED << fields, net, locals, hist >>
    /\ UNCHANGED pure

\* return self._current_packet, then execute's checks of error_code and of
\* the response's Error; leaving the with-block releases the lock
\* variant: only the AMS-level error_code is looked at
ExecuteOutcome_AmsOnly(slot) ==
    IF slot = NoPacket THEN "AttributeError"
    ELSE IF slot[1].error_code > 0 THEN "AdsException"
    ELSE "ok"

ExecuteOutcome(slot) ==
    IF slot = NoPacket THEN "AttributeError"
    ELSE IF slot[1].error_code > 0 THEN "AdsException"
    ELSE IF CreateResponseError(slot[1]) > 0 THEN "AdsException"
    ELSE "ok"

\* execute after await_command_invoke has returned; code is the argument of
\* the AdsException it raises. When execute returns a result to
\* read_by_handle or read_by_name, the caller goes on to unpack it.
aw_return(t) ==
    /\ pc[t] = "aw_return"
    /\ respId' = [respId EXCEPT ![t] =
                    IF current_packet = NoPacket THEN 0 ELSE current_packet[1].invoke_id]
    /\ code' = [code EXCEPT ![t] =
                  IF current_packet = NoPacket THEN 0
                  ELSE IF current_packet[1].error_code > 0
                  THEN current_packet[1].error_code
                  ELSE IF CreateResponseError(current_packet[1]) > 0
                  THEN CreateResponseError(current_packet[1])
                  ELSE 0]
    /\ IF kind[t] = "read_by_handle" /\ ExecuteOutcome(current_packet) = "ok"
       THEN /\ pc' = [pc EXCEPT ![t] = "rd_unpack"]
            /\ ads_lock' = IF ads_lock = t THEN None ELSE ads_lock
            /\ UNCHANGED << stk, result >>
       ELSE Finish(t, ExecuteOutcome(current_packet))
    /\ UNCHANGED << fields, net, reqId, response, newPacket, hist >>
    /\ UNCHANGED pure

execute(t) ==
    \/ ex_lock(t) \/ sar_check(t) \/ sar_prep(t) \/ sar_clear(t)
    \/ sar_send_ok(t) \/ sar_send_fail(t) \/ sar_raise(t)
    \/ aw_check(t) \/ aw_timeout(t) \/ aw_return(t)


\* ------------------------------------------------------------- the socket
\* select.select([self.socket], [], [], 0.1) reports the socket readable
Readable == rcvbuf # << >> \/ peer = "reset" \/ (peer = "eof" /\ inflight = << >>)

\* recv raises socket.error: the socket object was closed, or the peer reset
RecvError == socket \in closedSocks \/ peer = "reset"

\* recv returns b'': the peer closed and everything it wrote has been read
RecvEof == rcvbuf = << >> /\ inflight = << >> /\ peer = "eof"

\* recv finds nothing to read and the 2 s socket timeout expires
\* (socket.timeout is a socket.error)
RecvTimeout == rcvbuf = << >> /\ ~RecvEof

\* callers whose request awaits its response
Waiting == {t \in Threads : pc[t] = "aw_check" /\ current_packet = NoPacket}

\* ----------------------------------------------------------------- reader
\* while not self._stop_reading.is_set():
r_loop(r) ==
    /\ pc[r] = "r_loop"
    /\ IF stop_reading THEN Step(r, "done") ELSE Step(r, "r_select")
    /\ UNCHANGED << fields, net, locals, hist >>
    /\ UNCHANGED pure

\* ready = select.select([self.socket], [], [], 0.1): TypeError on None and
\* ValueError on a closed socket end the thread
r_select(r) ==
    /\ pc[r] = "r_select"
    /\ IF socket = None \/ socket \in closedSocks THEN Crash(r)
       ELSE IF Readable THEN Step(r, "r_isconn")
       ELSE Step(r, "r_loop")
    /\ UNCHANGED << fields, net, locals, hist >>
    /\ UNCHANGED pure

\* if ready[0] and self.is_connected:
r_isconn(r) ==
    /\ pc[r] = "r_isconn"
    /\ IF socket # None THEN Step(r, "r_recv") ELSE Step(r, "r_loop")
    /\ UNCHANGED << fields, net, locals, hist >>
    /\ UNCHANGED pure

\* except socket.error: self.close(); break
OnSocketError(r) ==
    /\ Call(r, "cl_check", "r_break")
    /\ tperr' = tperr \cup Waiting

\* read_ams_packet_from_socket returned None: newPacket.invoke_id raises
\* AttributeError, which _async_read_fn does not catch
OnNone(r, resp) ==
    /\ Crash(r)
    /\ tperr' = tperr \cup Waiting
    /\ framingErr' = IF resp = << >> THEN framingErr ELSE framingErr \cup {socket}

\* len(response) < 6, or response[0:2] != b'\x00\x00'
BadHeader(resp) == Len(resp) < TcpHeaderLen \/ SubSeq(resp, 1, 2) # << 0, 0 >>

\* dataLen = struct.unpack('I', response[2:6])[0] + 6
DataLen(resp) == UnLE32(SubSeq(resp, 3, 6)) + TcpHeaderLen

\* return AmsPacket.from_binary_data(response[6:]); a rejection by the
\* decoder is an exception _async_read_fn does not catch
Decode(r, resp) ==
    LET ams == Drop(resp, TcpHeaderLen) IN
    /\ handed' = Append(handed, [got |-> Len(ams), declared |-> DataLen(resp) - TcpHeaderLen])
    /\ response' = [response EXCEPT ![r] = << >>]
    /\ IF from_binary_data(ams) = << >>
       THEN OnNone(r, resp) /\ UNCHANGED newPacket
       ELSE /\ newPacket' = [newPacket EXCEPT ![r] = from_binary_data(ams)]
            /\ Step(r, "r_cmp")
            /\ UNCHANGED << tperr, framingErr >>

\* response = self.socket.recv(ADS_CHUNK_SIZE_DEFAULT) and the header checks
r_recv(r) ==
    /\ pc[r] = "r_recv"
    /\ IF socket = None
       THEN /\ Crash(r)
            /\ UNCHANGED << rcvbuf, response, newPacket, handed, tperr, framingErr >>
       ELSE IF RecvError \/ RecvTimeout
       THEN /\ OnSocketError(r)
            /\ UNCHANGED << rcvbuf, response, newPacket, handed, framingErr >>
       ELSE LET resp == Take(rcvbuf, ADS_CHUNK_SIZE_DEFAULT) IN
            /\ rcvbuf' = Drop(rcvbuf, ADS_CHUNK_SIZE_DEFAULT)
            /\ IF BadHeader(resp)
               THEN OnNone(r, resp) /\ UNCHANGED << response, newPacket, handed >>
               ELSE IF Len(resp) < DataLen(resp)
               THEN /\ response' = [response EXCEPT ![r] = resp]
                    /\ Step(r, "r_more")
                    /\ UNCHANGED << newPacket, handed, tperr, framingErr >>
               ELSE Decode(r, resp)
    /\ UNCHANGED << fields, inflight, peer, npeer, reqId, respId, code,
                    kind, wasOpen, sent, malformed, nops, nprepared >>
    /\ UNCHANGED pure

\* while (len(response) < dataLen):
\*     response += self.socket.recv(min(ADS_CHUNK_SIZE_DEFAULT, dataLen - len(response)))
\* (a recv that returns b'' leaves the loop where it is)
r_more(r) ==
    /\ pc[r] = "r_more"
    /\ ~RecvEof
    /\ IF socket = None
       THEN /\ Crash(r)
            /\ UNCHANGED << rcvbuf, response, newPacket, handed, tperr, framingErr >>
       ELSE IF RecvError \/ RecvTimeout
       THEN /\ OnSocketError(r)
            /\ UNCHANGED << rcvbuf, response, newPacket, handed, framingErr >>
       ELSE LET n == Min(ADS_CHUNK_SIZE_DEFAULT, DataLen(response[r]) - Len(response[r]))
                resp == response[r] \o Take(rcvbuf, n) IN
            /\ rcvbuf' = Drop(rcvbuf, n)
            /\ IF Len(resp) < DataLen(resp)
               THEN /\ response' = [response EXCEPT ![r] = resp]
                    /\ Step(r, "r_more")
                    /\ UNCHANGED << newPacket, handed, tperr, framingErr >>
               ELSE Decode(r, resp)
    /\ UNCHANGED << fields, inflight, peer, npeer, reqId, respId, code,
                    kind, wasOpen, sent, malformed, nops, nprepared >>
    /\ UNCHANGED pure

\* variant: every decoded response is taken, whatever its invoke id
r_cmp_NoCheck(r) ==
    /\ pc[r] = "r_cmp"
    /\ Step(r, "r_store") /\ UNCHANGED newPacket
    /\ UNCHANGED << fields, net, reqId, respId, code, response, hist >>
    /\ UNCHANGED pure

\* if (newPacket.invoke_id == self._current_invoke_id): ... else: dropped
r_cmp(r) ==
    /\ pc[r] = "r_cmp"
    /\ IF newPacket[r][1].invoke_id = current_invoke_id
       THEN Step(r, "r_store") /\ UNCHANGED newPacket
       ELSE Step(r, "r_loop") /\ newPacket' = [newPacket EXCEPT ![r] = NoPacket]
    /\ UNCHANGED << fields, net, reqId, respId, code, response, hist >>
    /\ UNCHANGED pure

\* self._current_packet = newPacket
r_store(r) ==
    /\ pc[r] = "r_store"
    /\ current_packet' = newPacket[r]
    /\ newPacket' = [newPacket EXCEPT ![r] = NoPacket]
    /\ Step(r, "r_loop")
    /\ UNCHANGED << socket, closedSocks, nsock, stop_reading, thread,
                    current_invoke_id, net, reqId, respId, code, response, hist >>
    /\ UNCHANGED pure

reader(r) ==
    \/ r_loop(r) \/ r_select(r) \/ r_isconn(r) \/ r_recv(r) \/ r_more(r)
    \/ r_cmp(r) \/ r_store(r)

\* ------------------------------------------------------------------- peer
AmsErr == 6        \* "target port not found"
AdsErr == 1808     \* 0x710 "symbol not found"
CmdWrite == 3
StateResponse == 5

\* a response frame of the peer: AMS error code e, command result code c
RespPacket(i, e, c) ==
    [command_id |-> CmdWrite, state_flags |-> StateResponse,
     error_code |-> e, invoke_id |-> i, data |-> LE32(c)]

ErrChoices == { << 0, 0 >>, << AmsErr, 0 >>, << 0, AdsErr >> }

\* the peer answers requests it received on the connection
PeerFrames == {get_tcp_packet(RespPacket(i, c[1], c[2])) : i \in sent, c \in ErrChoices}

\* what the peer may write: a frame, six bytes whose first two are not zero,
\* or the header of a frame whose body it never writes
PeerMessages ==
    PeerFrames \cup {<< 1, 0 >> \o LE32(0),
                     get_tcp_header(GetBinaryData(RespPacket(InvokeIdFirst, 0, 0)))}

\* a message travels as one segment or as two, split after 3 or 10 bytes
Segments(m) == { << m >> } \cup { << Take(m, k), Drop(m, k) >> : k \in {j \in {3, 10} : j < Len(m)} }

ConnOpen == peer = "open" /\ nsock \notin closedSocks

\* the peer writes message m on the connection; it travels as the segments segs
PeerWrite(m, segs) ==
    /\ ConnOpen /\ npeer < MaxPeerWrites
    /\ inflight' = inflight \o segs
    /\ npeer' = npeer + 1
    /\ malformed' = (malformed \/ m \notin PeerFrames)
    /\ UNCHANGED << fields, rcvbuf, peer, pc, stk, result, ads_lock, locals,
                    kind, wasOpen, handed, sent, tperr, framingErr, nops, nprepared >>
    /\ UNCHANGED pure

\* the next segment in flight arrives at the socket
Arrive ==
    /\ nsock \notin closedSocks
    /\ inflight # << >>
    /\ rcvbuf' = rcvbuf \o Head(inflight)
    /\ inflight' = Tail(inflight)
    /\ UNCHANGED << fields, peer, npeer, pc, stk, result, ads_lock, locals, hist >>
    /\ UNCHANGED pure

\* the peer closes its end
PeerClose ==
    /\ ConnOpen
    /\ peer' = "eof"
    /\ UNCHANGED << fields, rcvbuf, inflight, npeer, pc, stk, result,
                    ads_lock, locals, hist >>
    /\ UNCHANGED pure

\* the connection is reset
PeerReset ==
    /\ ConnOpen
    /\ peer' = "reset"
    /\ UNCHANGED << fields, rcvbuf, inflight, npeer, pc, stk, result,
                    ads_lock, locals, hist >>
    /\ UNCHANGED pure

\* ---------------------------------------------------------- specification
Next ==
    \/ \E t \in Threads : StartExecute(t) \/ StartConnect(t) \/ StartClose(t)
    \/ \E t \in Threads : execute(t) \/ connect(t)
    \/ \E p \in Procs : close(p)
    \/ \E r \in Readers : reader(r)
    \/ \E m \in PeerMessages : \E segs \in Segments(m) : PeerWrite(m, segs)
    \/ Arrive
    \/ PeerClose
    \/ PeerReset

Spec == Init /\ [][Next]_vars

\* every thread that can take a step is scheduled in the end; the peer and
\* the network owe nothing
SpecLive ==
    /\ Init /\ [][Next]_vars
    /\ \A t \in Threads : WF_vars(execute(t) \/ connect(t))
    /\ \A p \in Procs : WF_vars(close(p))
    /\ \A r \in Readers : WF_vars(reader(r))

\* ------------------------------------------------- the invoke-id sequence
\* prepare_command_invoke called on its own, again and again
prepare_command_invoke ==
    /\ nprepared < MaxPrepare
    /\ current_invoke_id' = NextInvokeId(current_invoke_id)
    /\ current_packet' = NoPacket
    /\ nprepared' = nprepared + 1
    /\ UNCHANGED << socket, closedSocks, nsock, stop_reading, thread, ads_lock,
                    pc, stk, result, kind, wasOpen, reqId, respId, code, response,
                    newPacket, rcvbuf, inflight, peer, handed, sent, tperr,
                    framingErr, malformed, nops, npeer >>
    /\ UNCHANGED pure

NextInvoke == prepare_command_invoke

SpecInvoke == Init /\ [][NextInvoke]_vars


\* =========================================================== symbol engine
\* AdsType.types: the size column
AdsType_size(tag) ==
    CASE tag = 33 -> 1      \* 0x21 BOOL
      [] tag = 65 -> 0      \* 0x41 STRUCT
      [] tag = 19 -> 4      \* 0x13 UDINT
      [] tag = 18 -> 2      \* 0x12 UINT
      [] tag = 17 -> 1      \* 0x11 USINT
      [] tag = 16 -> 1      \* 0x10 SINT
      [] tag = 2  -> 2      \* 0x02 INT
      [] tag = 3  -> 4      \* 0x03 DINT
      [] tag = 4  -> 4      \* 0x04 REAL
      [] tag = 5  -> 8      \* 0x05 LREAL
      [] tag = 30 -> 0      \* 0x1E STRING

STRUCT == 65

\* AdsAlignment._omask
omask(size) ==
    CASE size = 0 -> [mask |-> 3, off |-> 4]
      [] size = 1 -> [mask |-> 0, off |-> 1]
      [] size = 2 -> [mask |-> 1, off |-> 2]
      [] size = 4 -> [mask |-> 3, off |-> 4]
      [] size = 8 -> [mask |-> 3, off |-> 4]

\* AdsAlignment.calc_alignment; for a mask of the form 2^k - 1,
\* offset & mask is offset % (mask + 1) and offset & ~mask is offset less that
AdsAlignment_calc_alignment(offset, size) ==
    IF offset % (omask(size).mask + 1) > 0
    THEN (offset - (offset % (omask(size).mask + 1))) + omask(size).off
    ELSE offset

\* variant: offsets are never aligned
calc_alignment_Never(offset, size) == offset

\* AdsSymbolList.calc_alignment
calc_alignment(offset, size) ==
    IF alignment THEN AdsAlignment_calc_alignment(offset, size) ELSE offset

\* AdsSymbol(path, index, offset, adstype)
AdsSymbol(path, index, offset, adstype) ==
    [path |-> path, index |-> index, offset |-> offset, type |-> adstype]

\* The running state of an expansion: the dict, the number of inserts, the
\* running offset, and the exception under way ("" when none).
\* AdsSymbolList.insert: self.db[symbol.path] = symbol on a dict: a new key
\* goes to the end, an existing key keeps its place and gets the new value
insert(st, symbol) ==
    [st EXCEPT
        !.db = IF \E i \in 1..Len(@) : @[i].path = symbol.path
               THEN [i \in 1..Len(@) |-> IF @[i].path = symbol.path THEN symbol ELSE @[i]]
               ELSE Append(@, symbol),
        !.n = @ + 1]

RECURSIVE symbol_array_by_tinfo(_, _, _, _, _)
RECURSIVE symbol_struct_by_tinfo(_, _, _, _, _)

\* variant: the last element is left out
symbol_array_by_tinfo_Short(tinfo, master, index, i, st) ==
    IF i >= tinfo.noelements - 1 \/ st.exc # "" THEN st
    ELSE LET path == master \o "[" \o ToString(i) \o "]" IN
         IF ~tinfo.isstruct
         THEN LET off == calc_alignment(st.offset, AdsType_size(tinfo.type))
                  st1 == insert(st, AdsSymbol(path, index, off, tinfo.type))
              IN  symbol_array_by_tinfo(tinfo, master, index, i + 1,
                                [st1 EXCEPT !.offset = off + AdsType_size(tinfo.type)])
         ELSE IF tinfo.strtype \notin DOMAIN tinfolist
         THEN [st EXCEPT !.exc = "KeyError"]
         ELSE symbol_array_by_tinfo(tinfo, master, index, i + 1,
                            symbol_struct_by_tinfo(tinfolist[tinfo.strtype].child, 1, path, index, st))

\* _symbol_array_by_tinfo(tinfo, master, index, offset): for i in
\* range(tinfo.noelements), from element i on (0 for the call)
symbol_array_by_tinfo(tinfo, master, index, i, st) ==
    IF i >= tinfo.noelements \/ st.exc # "" THEN st
    ELSE LET path == master \o "[" \o ToString(i) \o "]" IN
         IF ~tinfo.isstruct
         THEN LET off == calc_alignment(st.offset, AdsType_size(tinfo.type))
                  st1 == insert(st, AdsSymbol(path, index, off, tinfo.type))
              IN  symbol_array_by_tinfo(tinfo, master, index, i + 1,
                                [st1 EXCEPT !.offset = off + AdsType_size(tinfo.type)])
         ELSE IF tinfo.strtype \notin DOMAIN tinfolist
         THEN [st EXCEPT !.exc = "KeyError"]
         ELSE symbol_array_by_tinfo(tinfo, master, index, i + 1,
                            symbol_struct_by_tinfo(tinfolist[tinfo.strtype].child, 1, path, index, st))

\* _symbol_struct_by_tinfo(tinfo, master, index, offset), returning the
\* offset: for k, e in tinfo.child, from the k-th member on (1 for the call);
\* the bare except around a nested struct swallows whatever was raised
\* below it and keeps what had been inserted
symbol_struct_by_tinfo(child, k, master, index, st) ==
    IF k > Len(child) \/ st.exc # "" THEN st
    ELSE LET e == child[k]
             path == master \o "." \o e.path
             off == calc_alignment(st.offset, AdsType_size(e.type))
             next ==
                IF ~(e.isarray \/ e.isstruct)
                THEN [insert(st, AdsSymbol(path, index, off, e.type))
                        EXCEPT !.offset = off + AdsType_size(e.type)]
                ELSE IF e.isarray
                THEN [symbol_array_by_tinfo(e, path, index, 0, [st EXCEPT !.offset = off])
                        EXCEPT !.offset = off + e.datasize]
                ELSE LET r == IF e.strtype \in DOMAIN tinfolist
                              THEN symbol_struct_by_tinfo(tinfolist[e.strtype].child, 1, path, index, st)
                              ELSE [st EXCEPT !.exc = "KeyError"]
                     IN  IF r.exc = "" THEN r
                         ELSE [r EXCEPT !.exc = "", !.offset = off + e.datasize]
         IN  symbol_struct_by_tinfo(child, k + 1, master, index, next)

\* _symbol_simple_by_sinfo(sinfopath): the symbol table's offset and type
\* tag are taken as they are
symbol_simple_by_sinfo(sinfo, st) ==
    insert(st, AdsSymbol(sinfo.path, sinfo.index, sinfo.offset, sinfo.type))

RECURSIVE BuildFrom(_, _)
\* build_symbol_list: for k, e in self.sinfolist, from the k-th record on
BuildFrom(k, st) ==
    IF k > Len(sinfolist) \/ st.exc # "" THEN st
    ELSE LET e == sinfolist[k]
             at == [st EXCEPT !.offset = e.offset]
             next ==
                IF e.typesymbol \in DOMAIN tinfolist
                THEN LET tinfo == tinfolist[e.typesymbol] IN
                     IF tinfo.isarray THEN symbol_array_by_tinfo(tinfo, e.path, e.index, 0, at)
                     ELSE IF tinfo.isstruct THEN symbol_struct_by_tinfo(tinfo.child, 1, e.path, e.index, at)
                     ELSE symbol_simple_by_sinfo(e, st)
                ELSE symbol_simple_by_sinfo(e, st)
         IN  BuildFrom(k + 1, next)

\* AdsSymbolList.build_symbol_list, called by __init__ on an empty db
build_symbol_list ==
    /\ phase = "in"
    /\ LET r == BuildFrom(1, [db |-> << >>, n |-> 0, offset |-> 0, exc |-> ""]) IN
          /\ db' = r.db
          /\ ninserted' = r.n
          /\ failed' = r.exc
    /\ phase' = "out"
    /\ UNCHANGED << tinfolist, sinfolist, alignment, group, memseed, called,
                    request, value, dimensions, arg, packed, unpacked,
                    adsdata, typeinfo >>
    /\ UNCHANGED << fields, net, locals, hist, pc, stk, result, ads_lock >>

\* AdsTypeInfo.from_arg(type, datasize, noelements, path, comment); strtype
\* is AdsType.type(type), the name column of AdsType.types
from_arg(type, datasize, noelements, path) ==
    [type |-> type, datasize |-> datasize, noelements |-> noelements,
     path |-> path,
     strtype |-> CASE type = 33 -> "BOOL"  [] type = 65 -> "STRUCT"
                   [] type = 19 -> "UDINT" [] type = 18 -> "UINT"
                   [] type = 17 -> "USINT" [] type = 16 -> "SINT"
                   [] type = 2  -> "INT"   [] type = 3  -> "DINT"
                   [] type = 4  -> "REAL"  [] type = 5  -> "LREAL"
                   [] type = 30 -> "STRING",
     isstruct |-> FALSE, isarray |-> FALSE, child |-> << >>]

\* AdsTypeInfo.from_data, on the record of a structure (with its members as
\* child), of a structure member of structure type, and of an array (the
\* array's shape comes from the text of the path, or of the type for a
\* member)
AdsTypeInfo(type, datasize, noelements, path, strtype, isarray, child) ==
    [type |-> type, datasize |-> datasize, noelements |-> noelements,
     path |-> path, strtype |-> strtype, isstruct |-> (type = STRUCT),
     isarray |-> isarray, child |-> child]

\* the type table of a small PLC project
ST_IN ==
    AdsTypeInfo(STRUCT, 12, 1, "ST_IN", "ST_IN", FALSE,
                << from_arg(33, 1, 1, "a"), from_arg(2, 2, 1, "b"),
                   from_arg(5, 8, 1, "c") >>)
ST_OUT ==
    AdsTypeInfo(STRUCT, 28, 1, "ST_OUT", "ST_OUT", FALSE,
                << from_arg(17, 1, 1, "flag"),
                   AdsTypeInfo(STRUCT, 12, 1, "inner", "ST_IN", FALSE, << >>),
                   AdsTypeInfo(2, 4, 2, "arr", "INT", TRUE, << >>),
                   AdsTypeInfo(STRUCT, 4, 1, "ghost", "ST_NONE", FALSE, << >>),
                   from_arg(19, 4, 1, "last") >>)
ARR_INT == AdsTypeInfo(2, 6, 3, "ARRAY [0..2] OF INT", "INT", TRUE, << >>)
ARR_ST == AdsTypeInfo(STRUCT, 24, 2, "ARRAY [0..1] OF ST_IN", "ST_IN", TRUE, << >>)

\* AdsTypeInfoList, the records keyed by path: the type tables the PLC may
\* hand over, complete, with the declaration of ST_IN missing, and empty
PlcTables ==
    LET TypeInfoList(S) == [n \in {t.path : t \in S} |-> CHOOSE t \in S : t.path = n]
    IN  { TypeInfoList({ST_IN, ST_OUT, ARR_INT, ARR_ST}),
          TypeInfoList({ST_OUT, ARR_INT, ARR_ST}),
          TypeInfoList({}) }

\* AdsSymbolList.__init__: the built-in types are inserted over the PLC's
\* ('INT' is inserted twice, the second insert stands)
WithBuiltins(plc) ==
    LET BuiltinTypes ==
          [n \in {"UDINT", "TIME", "INT", "BOOL", "UINT", "USINT", "SINT",
                  "DINT", "REAL", "LREAL"} |->
              CASE n = "UDINT" -> from_arg(19, AdsType_size(19), 1, "UDINT")
                [] n = "TIME"  -> from_arg(19, AdsType_size(19), 1, "TIME")
                [] n = "INT"   -> from_arg(2, AdsType_size(2), 1, "INT")
                [] n = "BOOL"  -> from_arg(33, AdsType_size(33), 1, "BOOL")
                [] n = "UINT"  -> from_arg(18, AdsType_size(18), 1, "UINT")
                [] n = "USINT" -> from_arg(17, AdsType_size(17), 1, "USINT")
                [] n = "SINT"  -> from_arg(16, AdsType_size(16), 1, "SINT")
                [] n = "DINT"  -> from_arg(3, AdsType_size(3), 1, "DINT")
                [] n = "REAL"  -> from_arg(4, AdsType_size(4), 1, "REAL")
                [] n = "LREAL" -> from_arg(5, AdsType_size(5), 1, "LREAL")]
    IN  [n \in DOMAIN BuiltinTypes \cup DOMAIN plc |->
            IF n \in DOMAIN BuiltinTypes THEN BuiltinTypes[n] ELSE plc[n]]

\* AdsSymbolList(typeinfolist, symbolinfolist, alignment) before
\* build_symbol_list. The symbol table (AdsSymbolInfoList, the records of
\* AdsSymbolInfo.from_data keyed by path) has up to MaxSymbols records "A",
\* "B", ... of index group 0x4040; their type names and type tags are
\* those of primitives, of an alias the type table does not hold, and of
\* structures and arrays, declared or not.
SymInit ==
    /\ ClientInit /\ BatchIdle /\ CodecIdle /\ ParseIdle
    /\ phase = "in" /\ failed = ""
    /\ tinfolist \in {WithBuiltins(plc) : plc \in PlcTables}
    /\ \E n \in 1..MaxSymbols :
          \E o \in [1..n -> 0..MaxOffset],
             kd \in [1..n ->
                      { << "INT", 2 >>, << "LREAL", 5 >>, << "USINT", 17 >>,
                        << "T_ALIAS", 2 >>, << "ST_IN", STRUCT >>,
                        << "ST_OUT", STRUCT >>, << "ST_NONE", STRUCT >>,
                        << "ARRAY [0..2] OF INT", 2 >>,
                        << "ARRAY [0..1] OF ST_IN", STRUCT >> }] :
             sinfolist = [k \in 1..n |->
                            [path |-> << "A", "B", "C", "D" >>[k], index |-> 16448,
                             offset |-> o[k], type |-> kd[k][2],
                             typesymbol |-> kd[k][1]]]
    /\ alignment \in BOOLEAN
    /\ db = << >> /\ ninserted = 0

SpecSymbols == SymInit /\ [][build_symbol_list]_vars

\* ============================================================ batched reads
\* AdsType.types: the formatter column, as the struct format of the codec
\* (adstypeconvert.py); the byte order is the host's, little-endian
AdsType_formatter(tag) ==
    CASE tag = 17 -> "B"     \* USINT
      [] tag = 16 -> "b"     \* SINT
      [] tag = 2  -> "h"     \* INT
      [] tag = 18 -> "H"     \* UINT
      [] tag = 3  -> "i"     \* DINT
      [] tag = 19 -> "I"     \* UDINT
      [] tag = 30 -> "AdsStringDatatype"    \* STRING: the class, not a codec

RECURSIVE UnLE(_)
\* the unsigned value of little-endian bytes
UnLE(b) == IF b = << >> THEN 0 ELSE b[1] + 256 * UnLE(Tail(b))

\* struct.calcsize(fmt)
calcsize(fmt) ==
    CASE fmt \in {"B", "b"} -> 1 [] fmt \in {"h", "H"} -> 2 [] fmt \in {"i", "I"} -> 4

\* AdsSingleValuedTypeConvert.unpack(value): struct.unpack(fmt, value)[0];
\* struct.error when the bytes are not calcsize(fmt) many; calling unpack on
\* the class AdsStringDatatype is a TypeError. A signed value with the top
\* bit set is the two's complement: minus (the complemented bytes plus one)
unpack(fmt, b) ==
    IF fmt = "AdsStringDatatype" THEN [exc |-> "TypeError", v |-> 0]
    ELSE IF Len(b) # calcsize(fmt) THEN [exc |-> "struct.error", v |-> 0]
    ELSE IF fmt \in {"b", "h", "i"} /\ b[Len(b)] >= 128
    THEN [exc |-> "", v |-> -(UnLE([i \in 1..Len(b) |-> 255 - b[i]]) + 1)]
    ELSE [exc |-> "", v |-> UnLE(b)]

\* data[pointer:pointer+ssize] of Python: short when data ends before
Slice(data, pointer, ssize) ==
    SubSeq(data, Min(pointer, Len(data)) + 1, Min(pointer + ssize, Len(data)))

\* the PLC's memory from address a, n bytes; it answers
\* Read(indexGroup, a, n) with them
PlcBytes(a, n) == [i \in 1..n |-> (memseed + 37 * (a + i - 1)) % 256]

RECURSIVE SumReadValues(_, _, _)
\* the PLC's answer to the records k.. of a sum-read buffer: each record's
\* bytes, end to end
SumReadValues(buffer, k, n) ==
    IF k > n THEN << >>
    ELSE LET rec == SubSeq(buffer, 12 * (k - 1) + 1, 12 * k) IN
         PlcBytes(UnLE32(SubSeq(rec, 5, 8)), UnLE32(SubSeq(rec, 9, 12)))
            \o SumReadValues(buffer, k + 1, n)

\* the PLC's answer to ReadWrite(ADSIGRP_SYM_SUMREAD, n, readLen, buffer):
\* n status codes of 4 bytes, then the values
SumReadResponse(req) ==
    [i \in 1..(4 * req.indexOffset) |-> 0]
        \o SumReadValues(req.data, 1, req.indexOffset)

ADSIGRP_SYM_SUMREAD == 61568     \* 0xF080

RECURSIVE SumBuffer(_, _)
\* sum_read: struct.pack_into('<III', buffer, i*12, e.index, e.offset, size)
\* for the symbols from the k-th on
SumBuffer(g, k) ==
    IF k > Len(g.db) THEN << >>
    ELSE LE32(g.db[k].index) \o LE32(g.db[k].offset)
            \o LE32(AdsType_size(g.db[k].type)) \o SumBuffer(g, k + 1)

RECURSIVE SumSize(_, _)
\* sum_read: size += AdsType.size(e.type), for the symbols from the k-th on
SumSize(g, k) ==
    IF k > Len(g.db) THEN 0 ELSE AdsType_size(g.db[k].type) + SumSize(g, k + 1)

\* sum_read: pointer = adsgroupsymbollist.size * 4
SumStart_NoSkip(g) == 0
SumStart(g) == g.size * 4

RECURSIVE SumWalk(_, _, _, _, _)
\* sum_read: the second loop, from the k-th symbol on; st = [value, exc]
SumWalk(g, data, k, pointer, st) ==
    IF k > Len(g.db) \/ st.exc # "" THEN st
    ELSE LET adstype == g.db[k].type
             ssize == AdsType_size(adstype)
             u == unpack(AdsType_formatter(adstype), Slice(data, pointer, ssize))
             next == IF ssize > 0
                     THEN IF u.exc # "" THEN [st EXCEPT !.exc = u.exc]
                          ELSE [st EXCEPT !.value[k] = << u.v >>]
                     ELSE st
         IN  SumWalk(g, data, k + 1, pointer + ssize, next)

\* AdsClient.sum_read(adsgroupsymbollist); the buffer has 12 * size bytes,
\* zero where no record was packed; execute either returns the PLC's answer
\* or raises the AdsException of an ADS error
sum_read ==
    /\ phase = "in"
    /\ \E err \in {0, AdsErr} :
         LET req == [command |-> "ReadWrite", indexGroup |-> ADSIGRP_SYM_SUMREAD,
                     indexOffset |-> group.size,
                     readLen |-> SumSize(group, 1) + group.size * 4,
                     data |-> SumBuffer(group, 1)
                                \o [i \in 1..(12 * (group.size - Len(group.db))) |-> 0]]
             r == SumWalk(group, SumReadResponse(req), 1, SumStart(group),
                          [value |-> value, exc |-> ""])
         IN  /\ request' = Append(request, req)
             /\ IF err # 0
                THEN failed' = "AdsException" /\ value' = value
                ELSE failed' = r.exc /\ value' = r.value
    /\ called' = "sum_read"
    /\ phase' = "out"
    /\ UNCHANGED << group, memseed, tinfolist, sinfolist, alignment, db,
                    ninserted, dimensions, arg, packed, unpacked,
                    adsdata, typeinfo >>
    /\ UNCHANGED << fields, net, locals, hist, pc, stk, result, ads_lock >>

RECURSIVE BlockWalk(_, _, _, _, _)
\* block_read: the loop, from the k-th symbol on; st = [value, exc]
BlockWalk(g, data, k, pointer, st) ==
    IF k > Len(g.db) \/ st.exc # "" THEN st
    ELSE LET ssize == AdsType_size(g.db[k].type)
             at == AdsAlignment_calc_alignment(pointer, ssize)
             u == unpack(AdsType_formatter(g.db[k].type), Slice(data, at, ssize))
             next == IF u.exc # "" THEN [st EXCEPT !.exc = u.exc]
                     ELSE [st EXCEPT !.value[k] = << u.v >>]
         IN  BlockWalk(g, data, k + 1, at + ssize, next)

\* AdsClient.block_read(adsgroupsymbollist); list(...)[0] of an empty group
\* is an IndexError
block_read ==
    /\ phase = "in"
    /\ IF Len(group.db) = 0
       THEN failed' = "IndexError" /\ UNCHANGED << request, value >>
       ELSE \E err \in {0, AdsErr} :
              LET first == group.db[1]
                  last == group.db[Len(group.db)]
                  size == last.offset - first.offset + AdsType_size(last.type)
                  req == [command |-> "Read", indexGroup |-> first.index,
                          indexOffset |-> first.offset, length |-> size]
                  r == BlockWalk(group, PlcBytes(req.indexOffset, req.length), 1, 0,
                                 [value |-> value, exc |-> ""])
              IN  /\ request' = Append(request, req)
                  /\ IF err # 0
                     THEN failed' = "AdsException" /\ value' = value
                     ELSE failed' = r.exc /\ value' = r.value
    /\ called' = "block_read"
    /\ phase' = "out"
    /\ UNCHANGED << group, memseed, tinfolist, sinfolist, alignment, db,
                    ninserted, dimensions, arg, packed, unpacked,
                    adsdata, typeinfo >>
    /\ UNCHANGED << fields, net, locals, hist, pc, stk, result, ads_lock >>

RECURSIVE Place(_, _, _, _)
\* the offsets of symbols of the given types laid one after the other from
\* offset off, aligned (al) or packed, as the expansion lays them
Place(tags, k, off, al) ==
    IF k > Len(tags) THEN << >>
    ELSE LET o == IF al THEN AdsAlignment_calc_alignment(off, AdsType_size(tags[k]))
                  ELSE off
         IN  << o >> \o Place(tags, k + 1, o + AdsType_size(tags[k]), al)

\* a PLC and a group fresh from AdsSymbolList.filter (no symbol has a
\* value): up to MaxGroup symbols "p1", "p2", ... of one index group that
\* lie one after the other from offset base, of types USINT, SINT, INT,
\* DINT and STRING
BatchInit ==
    /\ ClientInit /\ SymIdle /\ CodecIdle /\ ParseIdle
    /\ phase = "in" /\ failed = ""
    /\ \E n \in 0..MaxGroup :
          \E tags \in [1..n -> {17, 16, 2, 3, 30}], base \in 0..MaxOffset,
             al \in BOOLEAN :
             group = [db |-> [k \in 1..n |->
                                AdsSymbol(<< "p1", "p2", "p3", "p4" >>[k], 16448,
                                          Place(tags, 1, base, al)[k], tags[k])],
                      size |-> n]
    /\ memseed \in {0, 150}
    /\ called = "" /\ request = << >>
    /\ value = [k \in 1..Len(group.db) |-> << >>]

SpecBatch == BatchInit /\ [][sum_read \/ block_read]_vars

\* ============================================================== array codec
RECURSIVE total_element_count(_)
\* AdsArrayTypeConvert.__init__: total_element_count
total_element_count(dims) ==
    IF Len(dims) = 0 THEN 1
    ELSE (dims[1][2] - dims[1][1] + 1) * total_element_count(Tail(dims))

\* sorted(dict_.keys()): the index the loop visits first among those left
SortedFirst_Last(S) == CHOOSE k \in S : \A l \in S : l <= k
SortedFirst(S) == CHOOSE k \in S : \A l \in S : k <= l

RECURSIVE dict_to_flat_list(_, _)
RECURSIVE FlattenFrom(_, _, _, _)

\* _dict_to_flat_list: the loop 'for idx in indices' over the sorted
\* indices still to visit; dims is the list left after the pop;
\* acc = [exc, flat]
FlattenFrom(dict_, rest, dims, acc) ==
    IF rest = {} \/ acc.exc # "" THEN acc
    ELSE LET idx == SortedFirst(rest) IN
         IF Len(dims) > 0
         THEN LET r == dict_to_flat_list(dict_[idx], dims) IN
              FlattenFrom(dict_, rest \ {idx}, dims,
                          IF r.exc # "" THEN [acc EXCEPT !.exc = r.exc]
                          ELSE [acc EXCEPT !.flat = @ \o r.flat])
         ELSE FlattenFrom(dict_, rest \ {idx}, dims,
                          [acc EXCEPT !.flat = Append(@, dict_[idx])])

\* AdsArrayTypeConvert._dict_to_flat_list(dict_, dims): min() of the keys of
\* an empty dict is a ValueError
dict_to_flat_list(dict_, dims) ==
    LET cur_dims == Head(dims)
        indices == DOMAIN dict_
        min == CHOOSE k \in indices : \A l \in indices : k <= l
        max == CHOOSE k \in indices : \A l \in indices : l <= k
    IN  IF indices = {} THEN [exc |-> "ValueError", flat |-> << >>]
        ELSE IF min # cur_dims[1]
        THEN [exc |-> "PyadsTypeError", flat |-> << >>]
        ELSE IF max # cur_dims[2]
        THEN [exc |-> "PyadsTypeError", flat |-> << >>]
        ELSE IF Cardinality(indices) # max - min + 1
        THEN [exc |-> "PyadsTypeError", flat |-> << >>]
        ELSE FlattenFrom(dict_, indices, Tail(dims), [exc |-> "", flat |-> << >>])

RECURSIVE flat_list_to_dict(_, _)
RECURSIVE InflateFrom(_, _, _, _)

\* _flat_list_to_dict: the loop 'for idx in range(cur_dims[0], cur_dims[1] +
\* 1)' from idx on; all calls pop from the one list; st = [dict, flat, exc]
InflateFrom(idx, hi, dims, st) ==
    IF idx > hi \/ st.exc # "" THEN st
    ELSE IF Len(dims) > 0
    THEN LET r == flat_list_to_dict(st.flat, dims) IN
         InflateFrom(idx + 1, hi, dims,
                     IF r.exc # "" THEN [st EXCEPT !.exc = r.exc]
                     ELSE [dict |-> st.dict @@ (idx :> r.dict), flat |-> r.flat,
                           exc |-> ""])
    ELSE IF st.flat = << >> THEN [st EXCEPT !.exc = "PyadsTypeError"]
    ELSE InflateFrom(idx + 1, hi, dims,
                     [dict |-> st.dict @@ (idx :> Head(st.flat)),
                      flat |-> Tail(st.flat), exc |-> ""])

\* AdsArrayTypeConvert._flat_list_to_dict(flat, dims)
flat_list_to_dict(flat, dims) ==
    InflateFrom(dims[1][1], dims[1][2], Tail(dims),
                [dict |-> << >>, flat |-> flat, exc |-> ""])

RECURSIVE struct_pack(_)
\* AdsTypeConvert.pack: struct.pack('<n>h', *values_list), the items end
\* to end; an item outside the range of 'h' is a struct.error
struct_pack(flat) ==
    IF flat = << >> THEN [exc |-> "", b |-> << >>]
    ELSE LET v == Head(flat)
             h == IF v < -32768 \/ v > 32767
                  THEN [exc |-> "struct.error", b |-> << >>]
                  ELSE [exc |-> "", b |-> LE16((v + 65536) % 65536)]
             t == struct_pack(Tail(flat))
         IN  IF h.exc # "" THEN h ELSE IF t.exc # "" THEN t
             ELSE [exc |-> "", b |-> h.b \o t.b]

\* AdsArrayTypeConvert.pack(value): the handler of a PyadsTypeError of
\* _dict_to_flat_list reads 'ex.message', and exceptions of Python 3 have
\* no attribute 'message'
AdsArrayTypeConvert_pack(v) ==
    LET flat ==
          IF v.kind = "seq"
          THEN IF Len(v.s) # total_element_count(dimensions)
               THEN [exc |-> "PyadsTypeError", flat |-> << >>]
               ELSE [exc |-> "", flat |-> v.s]
          ELSE LET r == dict_to_flat_list(v.m, dimensions) IN
               IF r.exc = "PyadsTypeError"
               THEN [exc |-> "AttributeError", flat |-> << >>]
               ELSE r
    IN  IF flat.exc # "" THEN [exc |-> flat.exc, b |-> << >>]
        ELSE struct_pack(flat.flat)

\* AdsArrayTypeConvert.unpack(value): AdsTypeConvert.unpack does
\* struct.unpack('<n>h', value), then _flat_list_to_dict
AdsArrayTypeConvert_unpack(b) ==
    LET n == total_element_count(dimensions)
        flat == IF Len(b) # 2 * n THEN [exc |-> "struct.error", flat |-> << >>]
                ELSE [exc |-> "",
                      flat |-> [k \in 1..n |->
                                  unpack("h", SubSeq(b, 2 * k - 1, 2 * k)).v]]
    IN
    IF flat.exc # "" THEN [exc |-> flat.exc, dict |-> << >>]
    ELSE LET r == flat_list_to_dict(flat.flat, dimensions) IN
         [exc |-> r.exc, dict |-> r.dict]

\* a caller packs a value
array_pack ==
    /\ phase = "in"
    /\ LET r == AdsArrayTypeConvert_pack(arg) IN
          /\ failed' = r.exc
          /\ packed' = r.b
    /\ phase' = "out"
    /\ UNCHANGED << dimensions, arg, unpacked, tinfolist, sinfolist, alignment,
                    db, ninserted, group, memseed, called, request, value,
                    adsdata, typeinfo >>
    /\ UNCHANGED << fields, net, locals, hist, pc, stk, result, ads_lock >>

\* a caller unpacks the bytes pack has returned
array_unpack ==
    /\ phase = "out" /\ failed = ""
    /\ LET r == AdsArrayTypeConvert_unpack(packed) IN
          /\ failed' = r.exc
          /\ unpacked' = r.dict
    /\ phase' = "back"
    /\ UNCHANGED << dimensions, arg, packed, tinfolist, sinfolist, alignment,
                    db, ninserted, group, memseed, called, request, value,
                    adsdata, typeinfo >>
    /\ UNCHANGED << fields, net, locals, hist, pc, stk, result, ads_lock >>


\* the key sets a dict may come with for a dimension (lo, hi): the declared
\* keys, the declared keys with one missing, and with one key more below
\* lo or above hi
\* The nested dicts for dims: of one dimension with any of the key sets; of
\* two dimensions with any of the key sets outside and, in at most one
\* row, any of the key sets inside. The key sets of a dimension (lo, hi):
\* the declared keys, the declared keys with one missing, and with one key
\* more below lo or above hi. Each element tells its indices.
Elem(seed, i, j) == seed + 10 * i + j

Dicts(dims, seed) ==
    LET KeySets(b) ==
          {b[1]..b[2]} \cup {(b[1]..b[2]) \ {k} : k \in b[1]..b[2]}
              \cup {(b[1]..b[2]) \cup {b[1] - 1}, (b[1]..b[2]) \cup {b[2] + 1}}
    IN
    IF Len(dims) = 1
    THEN {[i \in K |-> Elem(seed, i, 0)] : K \in KeySets(dims[1])}
    ELSE {[i \in K1 |-> [j \in (IF i = odd THEN K2 ELSE dims[2][1]..dims[2][2])
                                |-> Elem(seed, i, j)]] :
            K1 \in KeySets(dims[1]), K2 \in KeySets(dims[2]),
            odd \in (dims[1][1] - 1)..(dims[1][2] + 1)}

\* an array codec of INT elements, of one or of two dimensions, and a value
\* to pack: a nested dict, or a flat sequence of the array's length, one
\* shorter or one longer
CodecInit ==
    /\ ClientInit /\ SymIdle /\ BatchIdle /\ ParseIdle
    /\ phase = "in" /\ failed = ""
    /\ LET DimBounds == {b \in (0..MaxLow) \X (0..(MaxLow + MaxSpan)) :
                             b[1] <= b[2] /\ b[2] - b[1] <= MaxSpan}
       IN  dimensions \in [1..1 -> DimBounds] \cup [1..2 -> DimBounds]
    /\ \E seed \in {-50, 300} :
          LET n == total_element_count(dimensions) IN
          arg \in {[kind |-> "dict", m |-> m] : m \in Dicts(dimensions, seed)}
                \cup {[kind |-> "seq", s |-> [k \in 1..l |-> Elem(seed, 0, k)]] :
                         l \in (n - 1)..(n + 1)}
    /\ packed = << >> /\ unpacked = << >>

SpecCodec == CodecInit /\ [][array_pack \/ array_unpack]_vars

\* ===================================================== reads and writes by handle
\* a thread calls read_by_handle: self.read(...), which calls execute
\* (read_by_name differs in the command only: self.read_write(...))
StartReadByHandle(t) ==
    /\ pc[t] = "idle" /\ nops < MaxOps
    /\ \A u \in Threads : ~Lifecycle(u)
    /\ pc' = [pc EXCEPT ![t] = "ex_lock"]
    /\ result' = BeginResult(t)
    /\ UNCHANGED << stk, ads_lock >>
    /\ Begin(t, "read_by_handle")
    /\ UNCHANGED pure

\* return ads_data_type.unpack(data). The peer's answers carry no bytes
\* after the result field, so the codec INT finds nothing to decode;
\* unpack of DATE_AND_TIME is 'pass' and returns None for any data.
rd_unpack(t) ==
    /\ pc[t] = "rd_unpack"
    /\ \E ads_data_type \in {"INT", "DATE_AND_TIME"} :
          LET exc == IF ads_data_type = "INT" THEN unpack("h", << >>).exc ELSE ""
          IN  Finish(t, IF exc = "" THEN "ok" ELSE exc)
    /\ UNCHANGED << fields, net, locals, hist >>
    /\ UNCHANGED pure

\* variant: the value is packed after the invoke id has been assigned
StartWriteByHandle_PackLate(t) ==
    /\ pc[t] = "idle" /\ nops < MaxOps
    /\ \A u \in Threads : ~Lifecycle(u)
    /\ \E v \in {7, 40000} :
          LET value_raw == struct_pack(<< v >>) IN
          /\ pc' = [pc EXCEPT ![t] = IF value_raw.exc = "" THEN "ex_lock" ELSE "idle"]
          /\ result' = [BeginResult(t) EXCEPT ![t] = value_raw.exc]
          /\ current_invoke_id' = IF value_raw.exc = "" THEN current_invoke_id
                                  ELSE NextInvokeId(current_invoke_id)
    /\ UNCHANGED << stk, ads_lock >>
    /\ kind' = [u \in Threads |-> IF u = t THEN "write_by_handle"
                                  ELSE IF pc[u] = "idle" THEN "none" ELSE kind[u]]
    /\ wasOpen' = [u \in Threads |-> IF u = t THEN socket # None
                                     ELSE IF pc[u] = "idle" THEN FALSE ELSE wasOpen[u]]
    /\ nops' = nops + 1
    /\ tperr' = {u \in tperr : u # t /\ pc[u] # "idle"}
    /\ reqId' = [u \in Threads |-> IF pc[u] = "idle" THEN 0 ELSE reqId[u]]
    /\ respId' = [u \in Threads |-> IF pc[u] = "idle" THEN 0 ELSE respId[u]]
    /\ code' = [u \in Threads |-> IF pc[u] = "idle" THEN 0 ELSE code[u]]
    /\ UNCHANGED << socket, closedSocks, nsock, stop_reading, thread,
                    current_packet, net, response, newPacket, handed, sent,
                    framingErr, malformed, nprepared >>
    /\ UNCHANGED pure

\* a thread calls write_by_handle(symbolHandle, INT, v):
\* value_raw = ads_data_type.pack(value), which raises struct.error for a
\* value outside the range of 'h', then self.write(...), which calls execute
StartWriteByHandle(t) ==
    /\ pc[t] = "idle" /\ nops < MaxOps
    /\ \A u \in Threads : ~Lifecycle(u)
    /\ \E v \in {7, 40000} :
          LET value_raw == struct_pack(<< v >>) IN
          /\ pc' = [pc EXCEPT ![t] = IF value_raw.exc = "" THEN "ex_lock" ELSE "idle"]
          /\ result' = [BeginResult(t) EXCEPT ![t] = value_raw.exc]
    /\ UNCHANGED << stk, ads_lock >>
    /\ Begin(t, "write_by_handle")
    /\ UNCHANGED pure

\* the client used through read_by_handle and write_by_handle, with a peer
\* that answers with frames or resets the connection
NextConvert ==
    \/ \E t \in Threads : StartReadByHandle(t) \/ StartWriteByHandle(t)
    \/ \E t \in Threads : execute(t) \/ connect(t) \/ rd_unpack(t)
    \/ \E p \in Procs : close(p)
    \/ \E r \in Readers : reader(r)
    \/ \E m \in PeerFrames : \E segs \in Segments(m) : PeerWrite(m, segs)
    \/ Arrive
    \/ PeerReset

SpecConvert == Init /\ [][NextConvert]_vars

\* ============================================================ symbol groups
\* AdsGroupSymbolList.insert(symbol) on g = [db, size]: self.db is a dict
\* keyed by path, so a path that is present keeps its place and gets the
\* new symbol; self.size += 1 in either case
AdsGroupSymbolList_insert(g, symbol) ==
    [db |-> IF \E k \in 1..Len(g.db) : g.db[k].path = symbol.path
            THEN [k \in 1..Len(g.db) |->
                    IF g.db[k].path = symbol.path THEN symbol ELSE g.db[k]]
            ELSE Append(g.db, symbol),
     size |-> g.size + 1]

\* the symbols a filter may find: "p1", "p2", ... of index group 0x4040,
\* INT or USINT, four bytes apart
GroupSymbols ==
    {AdsSymbol(<< "p1", "p2", "p3", "p4" >>[k], 16448, 4 * (k - 1), type) :
        k \in 1..MaxGroup, type \in {2, 17}}

\* a caller inserts a symbol into the group
group_insert ==
    /\ phase = "in" /\ called = "" /\ group.size < MaxGroup
    /\ \E symbol \in GroupSymbols :
          group' = AdsGroupSymbolList_insert(group, symbol)
    /\ value' = [k \in 1..Len(group'.db) |-> << >>]
    /\ UNCHANGED << phase, failed, memseed, called, request, tinfolist, sinfolist,
                    alignment, db, ninserted, dimensions, arg, packed, unpacked,
                    adsdata, typeinfo >>
    /\ UNCHANGED << fields, net, locals, hist, pc, stk, result, ads_lock >>

\* AdsGroupSymbolList.extend_list(grouplist), with the result of another
\* filter: a group of up to two symbols with different paths
extend_list ==
    /\ phase = "in" /\ called = ""
    /\ \E a \in GroupSymbols, b \in GroupSymbols, n \in 0..2 :
          LET grouplist == IF n = 0 THEN [db |-> << >>, size |-> 0]
                           ELSE IF n = 1 THEN [db |-> << a >>, size |-> 1]
                           ELSE [db |-> << a, b >>, size |-> 2]
              RECURSIVE Extend(_, _)
              \* for k, e in grouplist.db.items(): size += 1; db[k] = e
              Extend(g, k) ==
                  IF k > Len(grouplist.db) THEN g
                  ELSE Extend(AdsGroupSymbolList_insert(g, grouplist.db[k]), k + 1)
          IN  /\ a.path # b.path
              /\ group.size + grouplist.size <= MaxGroup
              /\ group' = Extend(group, 1)
    /\ value' = [k \in 1..Len(group'.db) |-> << >>]
    /\ UNCHANGED << phase, failed, memseed, called, request, tinfolist, sinfolist,
                    alignment, db, ninserted, dimensions, arg, packed, unpacked,
                    adsdata, typeinfo >>
    /\ UNCHANGED << fields, net, locals, hist, pc, stk, result, ads_lock >>

\* a PLC and an empty group, AdsGroupSymbolList()
GroupInit ==
    /\ ClientInit /\ SymIdle /\ CodecIdle /\ ParseIdle
    /\ phase = "in" /\ failed = ""
    /\ group = [db |-> << >>, size |-> 0]
    /\ memseed \in {0, 150}
    /\ called = "" /\ request = << >> /\ value = << >>

SpecGroup == GroupInit /\ [][group_insert \/ extend_list \/ sum_read]_vars

\* ========================================================= type descriptors
\* Strings are sequences of one-character strings here, so that the regular
\* expression can walk them.
Alphabet ==
    [upper |-> << "A", "B", "C", "D", "E", "F", "G", "H", "I", "J", "K", "L", "M",
                  "N", "O", "P", "Q", "R", "S", "T", "U", "V", "W", "X", "Y", "Z" >>,
     lower |-> << "a", "b", "c", "d", "e", "f", "g", "h", "i", "j", "k", "l", "m",
                  "n", "o", "p", "q", "r", "s", "t", "u", "v", "w", "x", "y", "z" >>,
     digit |-> << "0", "1", "2", "3", "4", "5", "6", "7", "8", "9" >>]

RECURSIVE int(_)
\* int(s) of a string of decimal digits
int(s) ==
    IF Len(s) = 0 THEN 0
    ELSE 10 * int(SubSeq(s, 1, Len(s) - 1))
           + (CHOOSE d \in 1..10 : Alphabet.digit[d] = s[Len(s)]) - 1

\* AdsTypeInfo._reg_idx:
\*   re.compile('ARRAY\s+\[([0-9]+).+([0-9]+)\].+OF\s(\w+)', re.IGNORECASE)
\* as the items of the pattern: what an item matches, whether it repeats
\* (+), and the group it captures (0: none)
reg_idx ==
    LET lit(c) == [kind |-> "lit", ch |-> c, plus |-> FALSE, grp |-> 0]
        cls(kd, pl, g) == [kind |-> kd, ch |-> "", plus |-> pl, grp |-> g]
    IN  << lit("A"), lit("R"), lit("R"), lit("A"), lit("Y"),
           cls("space", TRUE, 0),
           lit("["),
           cls("digit", TRUE, 1),
           cls("any", TRUE, 0),
           cls("digit", TRUE, 2),
           lit("]"),
           cls("any", TRUE, 0),
           lit("O"), lit("F"),
           cls("space", FALSE, 0),
           cls("word", TRUE, 3) >>

RECURSIVE re_match(_, _, _, _)
\* the match of the items k.. of pattern re at position pos of s, as the
\* backtracking matcher of Python's re finds it: a repeated item takes the
\* longest run with which the rest of the pattern still matches.
\* [ok, groups]: groups[g] is the text group g captured
re_match(re, k, pos, s) ==
    LET lower(c) == IF \E i \in 1..26 : Alphabet.upper[i] = c
                    THEN Alphabet.lower[CHOOSE i \in 1..26 : Alphabet.upper[i] = c]
                    ELSE c
        IsDigit(c) == \E i \in 1..10 : Alphabet.digit[i] = c
        IsWord(c) == IsDigit(c) \/ c = "_" \/ \E i \in 1..26 : Alphabet.lower[i] = lower(c)
        Matches(it, c) ==
            CASE it.kind = "lit" -> lower(c) = lower(it.ch)
              [] it.kind = "digit" -> IsDigit(c)
              [] it.kind = "space" -> c \in {" ", "\t", "\n", "\r", "\f"}
              [] it.kind = "word" -> IsWord(c)
              [] it.kind = "any" -> c # "\n"
    IN  IF k > Len(re) THEN [ok |-> TRUE, groups |-> [g \in {} |-> << >>]]
        ELSE LET it == re[k]
                 \* the longest run of characters from pos that match the item
                 run == CHOOSE l \in 0..(Len(s) - pos + 1) :
                           /\ \A j \in pos..(pos + l - 1) : Matches(it, s[j])
                           /\ l = Len(s) - pos + 1 \/ ~Matches(it, s[pos + l])
                 Capture(l, rest) ==
                     IF it.grp = 0 \/ ~rest.ok THEN rest
                     ELSE [rest EXCEPT !.groups =
                              [g \in DOMAIN rest.groups \cup {it.grp} |->
                                  IF g = it.grp THEN SubSeq(s, pos, pos + l - 1)
                                  ELSE rest.groups[g]]]
                 \* give characters back one at a time until the rest
                 \* matches (rest: the match of the items after this one)
                 RECURSIVE Try(_)
                 Try(l) ==
                     IF l = 0 THEN [ok |-> FALSE, groups |-> [g \in {} |-> << >>]]
                     ELSE CHOOSE m \in {IF rest.ok THEN Capture(l, rest) ELSE Try(l - 1) :
                                          rest \in {re_match(re, k + 1, pos + l, s)}} : TRUE
             IN  Try(IF it.plus \/ run = 0 THEN run ELSE 1)

\* _reg_idx.findall(s), as far as from_data looks at it: << >> when nothing
\* matches, else the groups of the leftmost match as its first entry
findall(s) ==
    LET RECURSIVE From(_)
        From(p) ==
            IF p > Len(s) THEN << >>
            ELSE CHOOSE f \in {IF m.ok THEN << << m.groups[1], m.groups[2], m.groups[3] >> >>
                               ELSE From(p + 1) :
                                  m \in {re_match(reg_idx, 1, p, s)}} : TRUE
    IN  From(1)

\* AdsTypeInfo.from_data, the part that parses the array information
from_data ==
    /\ phase = "in" /\ typeinfo = << >> /\ adsdata.strtype # << >>
    /\ \E inpath \in {findall(adsdata.path)}, instrtype \in {findall(adsdata.strtype)} :
           typeinfo' =
              IF inpath # << >>
              THEN << [path |-> adsdata.path, strtype |-> inpath[1][3],
                       noelements |-> int(inpath[1][2]) - int(inpath[1][1]) + 1,
                       isarray |-> TRUE, struct_is_child |-> FALSE] >>
              ELSE IF instrtype # << >>
              THEN << [path |-> adsdata.path, strtype |-> instrtype[1][3],
                       noelements |-> int(instrtype[1][2]) - int(instrtype[1][1]) + 1,
                       isarray |-> TRUE, struct_is_child |-> TRUE] >>
              ELSE << [path |-> adsdata.path, strtype |-> adsdata.strtype,
                       noelements |-> 1,
                       isarray |-> FALSE, struct_is_child |-> FALSE] >>
    /\ phase' = "out"
    /\ UNCHANGED << failed, adsdata, tinfolist, sinfolist, alignment, db, ninserted,
                    group, memseed, called, request, value,
                    dimensions, arg, packed, unpacked >>
    /\ UNCHANGED << fields, net, locals, hist, pc, stk, result, ads_lock >>

\* the text of an array descriptor as the PLC writes it: 'ARRAY [lo..hi] OF T',
\* in upper case or with the keywords in lower case
Descriptor(lo, hi, T, up) ==
    LET RECURSIVE str(_)
        str(n) == IF n < 10 THEN << Alphabet.digit[n + 1] >>
                  ELSE str(n \div 10) \o << Alphabet.digit[(n % 10) + 1] >>
    IN  (IF up THEN << "A", "R", "R", "A", "Y" >> ELSE << "a", "r", "r", "a", "y" >>)
        \o << " ", "[" >> \o str(lo) \o << ".", "." >> \o str(hi) \o << "]", " " >>
        \o (IF up THEN << "O", "F" >> ELSE << "o", "f" >>) \o << " " >> \o T

\* the element types of the descriptors: INT and the struct ST_IN
ElementTypes == {<< "I", "N", "T" >>, << "S", "T", "_", "I", "N" >>}

\* a type entry whose path, whose type string, both or neither is an array
\* descriptor with 0 <= lo <= hi <= MaxIndex
ParseInit ==
    /\ ClientInit /\ SymIdle /\ BatchIdle /\ CodecIdle
    /\ phase = "in" /\ failed = ""
    /\ \E lo \in 0..MaxIndex, hi \in 0..MaxIndex, T \in ElementTypes, up \in BOOLEAN :
          /\ lo <= hi
          /\ adsdata \in {[path |-> Descriptor(lo, hi, T, up), strtype |-> T],
                          [path |-> << "m" >>, strtype |-> Descriptor(lo, hi, T, up)],
                          [path |-> Descriptor(lo, hi, T, up),
                           strtype |-> Descriptor(lo, hi, T, up)],
                          [path |-> << "m" >>, strtype |-> T]}
    /\ typeinfo = << >>

SpecParse == ParseInit /\ [][from_data]_vars

\* ================================================================== claims
\* C1: the invoke id is 0x8000 before any request and after n requests it is
\* 0x8000 + (n mod 0x8000): 0x8001, 0x8002, ..., 0xFFFF, 0x8000, 0x8001, ...;
\* it always lies in 0x8000..0xFFFF and is never 0.
C1_InvokeIdCycling ==
    /\ current_invoke_id = InvokeIdFirst + (nprepared % (InvokeIdLast - InvokeIdFirst + 1))
    /\ InvokeIdFirst <= current_invoke_id /\ current_invoke_id <= InvokeIdLast
    /\ current_invoke_id # 0

\* the id has wrapped from 0xFFFF to 0x8000 and moved on to 0x8001
C1_Witness ==
    /\ nprepared = InvokeIdLast - InvokeIdFirst + 2
    /\ current_invoke_id = InvokeIdFirst + 1

InBody(t) == kind[t] = "execute" /\ pc[t] \notin {"idle", "ex_lock"}

\* C3: a thread that is inside the body of execute (from the assignment of
\* the invoke id, across the send and the wait for the response, until the
\* response is parsed or the operation fails) holds the transport lock, so
\* no two threads are there at once and no frame is written while another
\* caller's request awaits its response.
C3_OneOutstanding ==
    /\ \A t \in Threads : InBody(t) => ads_lock = t
    /\ \A t, u \in Threads : (InBody(t) /\ InBody(u)) => t = u
    /\ \A t, u \in Threads :
          (pc[t] = "sar_send" /\ pc[u] \in {"aw_check", "aw_return"}) => t = u

\* one caller awaits its response while another is blocked on the lock
C3_Witness ==
    \E t, u \in Threads : t # u /\ pc[t] = "aw_check" /\ pc[u] = "ex_lock"

\* C4: a wait for the response ends in failure only by the expiry of the
\* budget while the slot is still empty; the request then fails with the
\* ADS-timeout error and the expiry leaves the socket, the reader thread,
\* the stop flag and the connection as they were.
C4_TimeoutKeepsConnection ==
    [][\A t \in Threads :
         (pc[t] = "aw_check" /\ pc'[t] = "idle") =>
            /\ current_packet = NoPacket
            /\ result'[t] = "AdsTimeout"
            /\ ads_lock' = None
            /\ socket' = socket /\ closedSocks' = closedSocks
            /\ stop_reading' = stop_reading /\ thread' = thread
            /\ peer' = peer
            /\ \A r \in Readers : pc'[r] = pc[r]
      ]_vars

\* a request has timed out and the transport is still connected, its reader
\* still running
C4_Witness ==
    \E t \in Threads :
        /\ pc[t] = "idle" /\ result[t] = "AdsTimeout"
        /\ socket # None /\ socket \notin closedSocks
        /\ thread # None /\ AliveIn(pc, thread)


\* C5: a caller that was waiting in await_command_invoke when the reader met
\* a socket error or a framing violation has its operation fail with the
\* transport error (PyadsException), not with the timeout.
C5_TransportErrorSurfaced ==
    \A t \in Threads : (t \in tperr /\ pc[t] = "idle") => result[t] = "PyadsException"

\* C6: after the reader has met a framing violation on a socket (bytes that
\* are not a frame: a short header, a bad prefix, a length the decoder
\* rejects), that socket is closed and is_connected is false.
C6_FramingViolationDisconnects ==
    \A s \in framingErr :
        pc[ReaderOf(s)] \in Dead => (s \in closedSocks /\ socket = None)

\* C7: while the peer writes whole valid frames only, however they are split
\* into segments, the reader throws no bytes away and every byte string it
\* hands to the AMS decoder is exactly the declared length L of one frame.
C7_FramingExact ==
    ~malformed =>
        /\ framingErr = {}
        /\ \A i \in 1..Len(handed) : handed[i].got = handed[i].declared

\* process p has the return label L on its call stack
OnStack(p, L) == \E i \in 1..Len(stk[p]) : stk[p][i] = L

\* C8: a socket error met by the reader or by the writer ends in close():
\* when the reader leaves after it, the socket is None and the stop flag is
\* set; when a request whose send failed ends, the same holds and the caller
\* gets PyadsException.
C8_SocketErrorDisconnects ==
    [][/\ \A t \in Threads :
            (kind[t] = "execute" /\ (pc[t] = "sar_raise" \/ OnStack(t, "sar_raise"))
                /\ pc'[t] = "idle") =>
                (result'[t] = "PyadsException" /\ socket' = None /\ stop_reading')
       /\ \A r \in Readers :
            (OnStack(r, "r_break") /\ pc'[r] \in Dead) =>
                (pc'[r] = "done" /\ socket' = None /\ stop_reading')
      ]_vars

C11_CloseTerminates ==
    \A t \in Threads :
        (kind[t] = "close" /\ wasOpen[t] /\ pc[t] # "idle") ~> (pc[t] = "idle")

\* C12: a request issued while the socket is None calls connect() first;
\* while that connect runs the invoke id is not assigned and no frame is
\* sent; when it returns, a new open socket and a new running reader are in
\* place and only then the invoke id is assigned; when it fails, the request
\* fails with PyadsException, no frame was sent, the invoke id is unchanged
\* and the socket is None. (InImplicitConnect: the thread is inside the
\* connect() that send_and_recv calls.)
C12_ImplicitConnect ==
    [][LET InImplicitConnect(t) == kind[t] = "execute" /\ OnStack(t, "sar_prep") IN
       \A t \in Threads :
         /\ (kind[t] = "execute" /\ pc[t] = "sar_check" /\ pc'[t] # "sar_check") =>
               IF socket = None
               THEN InImplicitConnect(t)' /\ current_invoke_id' = current_invoke_id
               ELSE pc'[t] = "sar_prep"
         /\ InImplicitConnect(t) =>
               /\ current_invoke_id' = current_invoke_id
               /\ sent' \subseteq sent
               /\ reqId'[t] = 0
         /\ (InImplicitConnect(t) /\ pc'[t] = "sar_prep") =>
               /\ socket' # None /\ socket' = nsock' /\ socket' \notin closedSocks'
               /\ socket' \notin closedSocks /\ ~stop_reading'
               /\ thread' = ReaderOf(socket') /\ AliveIn(pc', thread')
         /\ (InImplicitConnect(t) /\ pc'[t] = "idle") =>
               /\ result'[t] = "PyadsException"
               /\ socket' = None
      ]_vars

\* C13 as stated: when the frame of a request is written, every request
\* sent before it has had its response delivered to its caller. (A thread
\* writes its frame in the step from "sar_send" to "aw_check"; the
\* requests sent before are those of other callers whose id is in sent.)
C13_ResponseBeforeNextSend ==
    [][\A t \in Threads :
         (pc[t] = "sar_send" /\ pc'[t] = "aw_check") =>
            \A u \in {v \in Threads \ {t} : reqId[v] # 0 /\ reqId[v] \in sent} :
               pc[u] = "idle" /\ respId[u] = reqId[u]
      ]_vars

\* C13 amended: when the frame of a request is written, every request sent
\* before it has ended (its response was delivered to its caller, or it
\* failed with the timeout or an error); none is still awaiting its response.
C13_EndedBeforeNextSend ==
    [][\A t \in Threads :
         (pc[t] = "sar_send" /\ pc'[t] = "aw_check") =>
            \A u \in {v \in Threads \ {t} : reqId[v] # 0 /\ reqId[v] \in sent} :
               /\ pc[u] = "idle"
               /\ result[u] # "none"
      ]_vars

\* a request has been sent after an earlier request of another caller ended
C13_Witness ==
    \E t, u \in Threads :
        /\ t # u /\ pc[t] = "aw_check" /\ reqId[t] \in sent
        /\ kind[u] = "execute" /\ pc[u] = "idle"
        /\ reqId[u] \in sent /\ reqId[u] # reqId[t]

\* C14: when execute gets its response, it raises AdsException carrying the
\* AMS-level error_code when that is non-zero, otherwise AdsException
\* carrying the command response's error field when that is non-zero, and
\* returns a result only when both are zero; raising the ADS error leaves
\* the socket, the stop flag, the reader thread and the connection as they
\* were.
C14_AdsErrorPropagation ==
    [][\A t \in Threads :
         (pc[t] = "aw_return" /\ pc'[t] = "idle" /\ current_packet # NoPacket) =>
            LET p == current_packet[1] IN
            /\ p.error_code > 0 =>
                  result'[t] = "AdsException" /\ code'[t] = p.error_code
            /\ (p.error_code = 0 /\ UnLE32(SubSeq(p.data, 1, 4)) > 0) =>
                  result'[t] = "AdsException" /\ code'[t] = UnLE32(SubSeq(p.data, 1, 4))
            /\ (p.error_code = 0 /\ UnLE32(SubSeq(p.data, 1, 4)) = 0) =>
                  result'[t] = "ok" /\ code'[t] = 0
            /\ result'[t] = "AdsException" =>
                  /\ socket' = socket /\ closedSocks' = closedSocks
                  /\ stop_reading' = stop_reading /\ thread' = thread
                  /\ peer' = peer
                  /\ \A r \in Readers : pc'[r] = pc[r]
      ]_vars

\* a request has failed with the error field of the command response, and
\* the transport is still connected with its reader running
C14_Witness ==
    \E t \in Threads :
        /\ pc[t] = "idle" /\ result[t] = "AdsException" /\ code[t] = AdsErr
        /\ respId[t] = reqId[t]
        /\ socket # None /\ socket \notin closedSocks
        /\ thread # None /\ AliveIn(pc, thread)

\* C15: with alignment enabled every leaf Symbol of the expanded list, at
\* offset o and of primitive size n, has o mod align_of(n) = 0, where
\* align_of(1) = 1, align_of(2) = 2, align_of(4) = align_of(8) = 4; and
\* calc_alignment(offset, n) is the smallest multiple of align_of(n) that is
\* >= offset (offset itself when it is aligned already).
C15_AlignmentRule ==
    LET align_of(n) == IF n <= 2 THEN n ELSE 4 IN
    /\ (phase = "out" /\ alignment) =>
          \A i \in 1..Len(db) :
             AdsType_size(db[i].type) \in {1, 2, 4, 8} =>
                db[i].offset % align_of(AdsType_size(db[i].type)) = 0
    /\ \A n \in {1, 2, 4, 8} : \A o \in 0..(8 * (MaxOffset + 1)) :
          LET r == AdsAlignment_calc_alignment(o, n) IN
             /\ r >= o
             /\ r % align_of(n) = 0
             /\ r - o < align_of(n)

\* C16: in every SymbolList that build_symbol_list has built, each leaf has
\* a path of its own (no insert has overwritten an earlier leaf) and a
\* primitive type tag: no leaf has the STRUCT tag 0x41 and no leaf stands
\* for a symbol of array or structure type, whether the type table holds
\* the symbol's type or not.
C16_ExpansionCompleteness ==
    LET Composite(e) == \/ e.type = STRUCT
                        \/ e.typesymbol \in {ARR_INT.path, ARR_ST.path}
    IN  (phase = "out" /\ failed = "") =>
          /\ ninserted = Len(db)
          /\ \A i, j \in 1..Len(db) : db[i].path = db[j].path => i = j
          /\ \A i \in 1..Len(db) : db[i].type # STRUCT
          /\ \A k \in 1..Len(sinfolist) : Composite(sinfolist[k]) =>
                \A i \in 1..Len(db) : db[i].path # sinfolist[k].path

\* C17: sum_read(group) issues one ReadWrite to ADSIGRP_SYM_SUMREAD with
\* index_offset = group.size, read_length = (sum of the symbols' byte sizes)
\* + group.size * 4 and a write buffer of group.size records of 12 bytes, the
\* k-th being {index_group, offset, size} of the k-th symbol; when the
\* answer has come, the k-th symbol's value is the k-th packed value of the
\* response, which lies behind the group.size status codes and the values
\* of the symbols before it, decoded with the symbol's codec.
C17_SumRead ==
    (phase = "out" /\ called = "sum_read") =>
       LET n == Len(group.db)
           sz(k) == AdsType_size(group.db[k].type)
           before(k) == SumSize([db |-> SubSeq(group.db, 1, k - 1)], 1)
           data == SumReadResponse(request[1])
       IN  /\ Len(request) = 1
           /\ request[1].command = "ReadWrite"
           /\ request[1].indexGroup = ADSIGRP_SYM_SUMREAD
           /\ request[1].indexOffset = group.size
           /\ request[1].readLen = before(n + 1) + group.size * 4
           /\ Len(request[1].data) = 12 * group.size
           /\ \A k \in 1..n :
                 SubSeq(request[1].data, 12 * k - 11, 12 * k) =
                    LE32(group.db[k].index) \o LE32(group.db[k].offset) \o LE32(sz(k))
           /\ failed \in {"", "AdsException"}
           /\ failed = "" =>
                 \A k \in 1..n :
                    value[k] =
                       IF sz(k) = 0 THEN << >>
                       ELSE << unpack(AdsType_formatter(group.db[k].type),
                                      SubSeq(data, 4 * group.size + before(k) + 1,
                                             4 * group.size + before(k) + sz(k))).v >>

\* sum_read has answered a group of three symbols of different sizes, the
\* last one a negative INT read behind the two before it
C17_Witness ==
    /\ phase = "out" /\ called = "sum_read" /\ failed = ""
    /\ Len(group.db) = 3
    /\ group.db[1].type = 3 /\ group.db[2].type = 17 /\ group.db[3].type = 2
    /\ value[1] # << >> /\ value[2] # << >>
    /\ value[3] # << >> /\ value[3][1] < 0

\* C18: block_read(group), on a group of symbols of non-zero byte size,
\* issues exactly one Read of (first.index_group, first.offset) with size =
\* last.offset - first.offset + byte_size(last.type); when the answer has
\* come it walks the group in insertion order with a running position that
\* starts at 0: the position is aligned up to the next multiple of
\* align_of(byte size), the symbol's value is unpacked from byte_size(type)
\* bytes of the answer at that position, and the position advances by that
\* size; every symbol of the group gets its value.
C18_BlockRead ==
    (/\ phase = "out" /\ called = "block_read" /\ Len(group.db) > 0
     /\ \A k \in 1..Len(group.db) : AdsType_size(group.db[k].type) > 0) =>
       LET n == Len(group.db)
           first == group.db[1]
           last == group.db[n]
           sz(k) == AdsType_size(group.db[k].type)
           align_of(m) == IF m <= 2 THEN m ELSE 4
           up(p, m) == ((p + align_of(m) - 1) \div align_of(m)) * align_of(m)
           pos[k \in 1..n] == IF k = 1 THEN up(0, sz(1))
                              ELSE up(pos[k - 1] + sz(k - 1), sz(k))
           size == last.offset - first.offset + sz(n)
           data == PlcBytes(first.offset, size)
       IN  /\ request = << [command |-> "Read", indexGroup |-> first.index,
                            indexOffset |-> first.offset, length |-> size] >>
           /\ failed # "AdsException" =>
                 /\ failed = ""
                 /\ \A k \in 1..n :
                       /\ pos[k] + sz(k) <= Len(data)
                       /\ value[k] =
                             << unpack(AdsType_formatter(group.db[k].type),
                                       SubSeq(data, pos[k] + 1, pos[k] + sz(k))).v >>

\* C19: for an array codec over the inclusive bounds (lo_0, hi_0), ...,
\* pack of a complete nested mapping (keyed by exactly the declared indices
\* in every dimension) emits the elements in row-major order, the last
\* dimension varying fastest; unpack puts element number k of the bytes
\* at the k-th index tuple in row-major order; and unpack(pack(m)) = m for
\* every complete mapping m.
C19_ArrayRoundTrip ==
    LET n == total_element_count(dimensions)
        lo(d) == dimensions[d][1]
        len(d) == dimensions[d][2] - dimensions[d][1] + 1
        \* the element of m at the k-th index tuple in row-major order
        At(m, k) == IF Len(dimensions) = 1 THEN m[lo(1) + k - 1]
                    ELSE m[lo(1) + ((k - 1) \div len(2))][lo(2) + ((k - 1) % len(2))]
        Keyed(m) == /\ DOMAIN m = dimensions[1][1]..dimensions[1][2]
                    /\ Len(dimensions) = 2 =>
                          \A i \in DOMAIN m : DOMAIN m[i] = dimensions[2][1]..dimensions[2][2]
        complete == arg.kind = "dict" /\ Keyed(arg.m)
    IN  /\ (phase = "out" /\ complete) => failed = ""
        /\ (phase \in {"out", "back"} /\ complete) =>
              /\ Len(packed) = 2 * n
              /\ \A k \in 1..n :
                    SubSeq(packed, 2 * k - 1, 2 * k) = LE16((At(arg.m, k) + 65536) % 65536)
        /\ phase = "back" =>
              /\ failed = ""
              /\ Keyed(unpacked)
              /\ \A k \in 1..n :
                    At(unpacked, k) = unpack("h", SubSeq(packed, 2 * k - 1, 2 * k)).v
        /\ (phase = "back" /\ complete) => unpacked = arg.m

\* a complete mapping of two dimensions, the second of three indices, with
\* negative elements, has been packed and unpacked into itself
C19_Witness ==
    /\ phase = "back" /\ arg.kind = "dict"
    /\ dimensions = << << 1, 2 >>, << 0, 2 >> >>
    /\ unpacked = arg.m
    /\ arg.m[1][0] < 0 /\ arg.m[2][2] = arg.m[1][0] + 12
    /\ Len(packed) = 12

\* C20: pack of a nested mapping with a missing key or with a key outside
\* the declared bounds, in any dimension, and pack of a flat sequence whose
\* length is not the total element count, fail with PyadsTypeError and
\* produce no bytes; no error of another kind escapes pack.
C20_ArrayRejection ==
    LET Keyed(m) == /\ DOMAIN m = dimensions[1][1]..dimensions[1][2]
                    /\ Len(dimensions) = 2 =>
                          \A i \in DOMAIN m : DOMAIN m[i] = dimensions[2][1]..dimensions[2][2]
        rejected == \/ arg.kind = "dict" /\ ~Keyed(arg.m)
                    \/ arg.kind = "seq" /\ Len(arg.s) # total_element_count(dimensions)
    IN  phase = "out" =>
          /\ rejected => (failed = "PyadsTypeError" /\ packed = << >>)
          /\ failed \in {"", "PyadsTypeError"}

\* C21: a type conversion error leaves the transport alone. When pack fails
\* in write_by_handle the call ends at once: no frame is sent and the invoke
\* id, the response slot, the lock, the socket, the stop flag, the reader
\* and the connection are unchanged. When unpack fails after a read the
\* socket, the stop flag, the reader and the connection are as they were and
\* the caller does not hold the transport lock.
C21_ConversionErrorKeepsConnection ==
    [][\A t \in Threads :
         /\ (pc[t] = "idle" /\ pc'[t] = "idle" /\ nops' = nops + 1
                /\ kind'[t] = "write_by_handle") =>
               /\ result'[t] = "struct.error"
               /\ sent' = sent /\ current_invoke_id' = current_invoke_id
               /\ current_packet' = current_packet /\ ads_lock' = ads_lock
               /\ socket' = socket /\ closedSocks' = closedSocks
               /\ stop_reading' = stop_reading /\ thread' = thread
               /\ peer' = peer /\ rcvbuf' = rcvbuf /\ inflight' = inflight
               /\ \A r \in Readers : pc'[r] = pc[r]
         /\ (pc[t] = "rd_unpack" /\ pc'[t] = "idle" /\ result'[t] # "ok") =>
               /\ socket' = socket /\ closedSocks' = closedSocks
               /\ stop_reading' = stop_reading /\ thread' = thread
               /\ peer' = peer /\ sent' = sent
               /\ current_invoke_id' = current_invoke_id
               /\ current_packet' = current_packet
               /\ ads_lock # t /\ ads_lock' = ads_lock
               /\ \A r \in Readers : pc'[r] = pc[r]
      ]_vars

\* unpack has failed after a read and pack has failed in a write of another
\* thread, and the transport is connected with the lock free
C21_Witness ==
    \E t, u \in Threads :
        /\ t # u /\ pc[t] = "idle" /\ pc[u] = "idle"
        /\ kind[t] = "read_by_handle" /\ result[t] = "struct.error"
        /\ kind[u] = "write_by_handle" /\ result[u] = "struct.error"
        /\ socket # None /\ socket \notin closedSocks /\ peer = "open"
        /\ ads_lock = None

\* C22: the packet await_command_invoke returns to a caller carries the
\* invoke id that was assigned to that caller's request, under every
\* interleaving of the reader's compare and store with the callers' steps.
C22_OwnResponseOnly ==
    [][\A t \in Threads :
         (pc[t] = "aw_return" /\ pc'[t] # "aw_return" /\ current_packet # NoPacket) =>
            /\ current_packet[1].invoke_id = reqId[t]
            /\ respId'[t] = reqId[t]
      ]_vars

\* C23: whenever the transport is connected (the socket is set and no thread
\* is inside connect() or close()), exactly one reader thread is alive and
\* it is the one that polls that socket; so no reader has ended leaving the
\* socket open; and never are two reader threads in their polling loop.
C23_ExactlyOneReader ==
    LET Polling == {r \in Readers :
                      pc[r] \in {"r_loop", "r_select", "r_isconn", "r_recv",
                                 "r_more", "r_cmp", "r_store"}}
        InLifecycle(p) ==
            \/ p \in Threads /\ Lifecycle(p)
            \/ OnStack(p, "sar_prep") \/ OnStack(p, "sar_raise")
            \/ OnStack(p, "r_break")
    IN  /\ Cardinality(Polling) <= 1
        /\ (socket # None /\ \A p \in Procs : ~InLifecycle(p)) =>
              /\ Polling = {ReaderOf(socket)}
              /\ {r \in Readers : AliveIn(pc, r)} = {ReaderOf(socket)}

\* C24: close() is safe against a close() of another thread: no thread
\* reaches self.socket.close() while the socket is None, and every close()
\* ends by returning, never by an exception, with the socket None.
C24_ConcurrentCloseSafe ==
    [][\A p \in Procs :
         LET InClose(f) == f[p] \in {"cl_check", "cl_set", "cl_join",
                                     "cl_sockclose", "cl_none"}
         IN  /\ pc[p] = "cl_sockclose" => socket # None
             /\ (InClose(pc) /\ ~InClose(pc')) =>
                   /\ socket' = None
                   /\ pc'[p] # "crashed"
                   /\ p \in Threads =>
                         ~(pc'[p] = "idle" /\ result'[p] = "AttributeError")
      ]_vars

\* C25: every exit of execute releases the transport lock (return,
\* AdsException, timeout, PyadsException of a failed connect or send), no
\* idle caller holds the lock, and a caller that waits for the lock gets it
\* in the end.
C25_LockReleased ==
    /\ [][\A t \in Threads :
           /\ (kind[t] = "execute" /\ pc[t] # "idle" /\ pc'[t] = "idle") =>
                 /\ ads_lock' # t
                 /\ ads_lock = t => ads_lock' = None
           /\ pc[t] = "idle" => ads_lock # t
        ]_vars
    /\ \A t \in Threads : (pc[t] = "ex_lock") ~> (pc[t] # "ex_lock")

\* C26: a symbol of a declared struct type is expanded into one leaf per
\* member, in declaration order, at the path base.member; the struct itself
\* gets no Symbol; each leaf lies at the running offset aligned for the
\* member's size (align_of 1, 2, 4, 4 for the sizes 1, 2, 4, 8; not aligned
\* when alignment is off), and the running offset then moves on by that
\* size; a member of a declared struct type is expanded in the same way from
\* the running offset, under base.member. For { BOOL a; INT b; LREAL c } at
\* offset 0 that is a at 0 and b at 2, and b at 1 with alignment off.
C26_StructExpansion ==
    (phase = "out" /\ failed = "") =>
    \A k \in 1..Len(sinfolist) :
        LET s == sinfolist[k]
            base == s.path
            align_of(n) == CASE n = 1 -> 1 [] n = 2 -> 2 [] n = 4 -> 4 [] n = 8 -> 4
            Al(x, n) == IF alignment
                        THEN CHOOSE m \in x..(x + 3) : m % align_of(n) = 0
                                 /\ \A l \in x..(m - 1) : l % align_of(n) # 0
                        ELSE x
            Leaves(P) == SelectSeq(db, LAMBDA y : y.path \in P)
            \* { BOOL a; INT b; LREAL c } from the running offset o, under b
            In(b, o) ==
                LET oa == Al(o, 1)
                    ob == Al(oa + 1, 2)
                    oc == Al(ob + 2, 8)
                IN  << AdsSymbol(b \o ".a", s.index, oa, 33),
                       AdsSymbol(b \o ".b", s.index, ob, 2),
                       AdsSymbol(b \o ".c", s.index, oc, 5) >>
        IN  /\ (s.typesymbol = "ST_IN" /\ "ST_IN" \in DOMAIN tinfolist) =>
                  Leaves({base, base \o ".a", base \o ".b", base \o ".c"})
                     = In(base, s.offset)
            /\ (s.typesymbol = "ST_OUT" /\ "ST_IN" \in DOMAIN tinfolist) =>
                  Leaves({base, base \o ".flag", base \o ".inner",
                          base \o ".inner.a", base \o ".inner.b",
                          base \o ".inner.c"})
                     = << AdsSymbol(base \o ".flag", s.index, Al(s.offset, 1), 17) >>
                          \o In(base \o ".inner", Al(s.offset, 1) + 1)

\* with alignment on, a struct at offset 0 has its INT member b at offset 2,
\* and the nested struct of a second symbol has been expanded
C26_Witness ==
    /\ phase = "out" /\ failed = "" /\ alignment
    /\ \E i \in 1..Len(db) : db[i].path = "A.b" /\ db[i].offset = 2
    /\ \E i \in 1..Len(db) : db[i].path = "B.inner.c"

\* C27: a symbol of a declared array type with n elements is expanded into
\* the elements base[0], ..., base[n-1], in this order and no others. For a
\* primitive element type these are n leaves: the first at the start offset
\* aligned for the element size, each next one an element size further. For
\* a declared struct element type each element is expanded as a struct,
\* the first from the start offset and each next one from where the one
\* before it ended.
C27_ArrayExpansion ==
    (phase = "out" /\ failed = "") =>
    \A k \in 1..Len(sinfolist) :
        LET s == sinfolist[k]
            base == s.path
            align_of(n) == CASE n = 1 -> 1 [] n = 2 -> 2 [] n = 4 -> 4 [] n = 8 -> 4
            Al(x, n) == IF alignment
                        THEN CHOOSE m \in x..(x + 3) : m % align_of(n) = 0
                                 /\ \A l \in x..(m - 1) : l % align_of(n) # 0
                        ELSE x
            Leaves(P) == SelectSeq(db, LAMBDA y : y.path \in P)
            El(i) == base \o "[" \o ToString(i) \o "]"
            \* { BOOL a; INT b; LREAL c } from the running offset o, under b
            In(b, o) ==
                LET oa == Al(o, 1)
                    ob == Al(oa + 1, 2)
                    oc == Al(ob + 2, 8)
                IN  << AdsSymbol(b \o ".a", s.index, oa, 33),
                       AdsSymbol(b \o ".b", s.index, ob, 2),
                       AdsSymbol(b \o ".c", s.index, oc, 5) >>
            Members(b) == {b, b \o ".a", b \o ".b", b \o ".c"}
        IN  /\ (s.typesymbol = ARR_INT.path /\ ARR_INT.path \in DOMAIN tinfolist) =>
                  Leaves({base} \cup {El(i) : i \in 0..ARR_INT.noelements})
                     = [i \in 1..ARR_INT.noelements |->
                          AdsSymbol(El(i - 1), s.index,
                                    Al(s.offset, 2) + 2 * (i - 1), 2)]
            /\ (s.typesymbol = ARR_ST.path /\ ARR_ST.path \in DOMAIN tinfolist
                   /\ "ST_IN" \in DOMAIN tinfolist) =>
                  Leaves({base} \cup UNION {Members(El(i)) : i \in 0..ARR_ST.noelements})
                     = In(El(0), s.offset)
                          \o In(El(1), In(El(0), s.offset)[3].offset + 8)

\* an array of INT at offset 1 with alignment on: its last element lies at
\* offset 6; and the second element of an array of structs has been expanded
C27_Witness ==
    /\ phase = "out" /\ failed = "" /\ alignment
    /\ sinfolist[1].offset = 1
    /\ \E i \in 1..Len(db) : db[i].path = "A[2]" /\ db[i].offset = 6
    /\ \E i \in 1..Len(db) : db[i].path = "B[1].c"

\* C28: when the path or the type string of a type entry is an array
\* descriptor 'ARRAY [lo..hi] OF T' (keywords in any case, lo and hi decimal
\* numbers of any number of digits), the parsed TypeInfo has isarray set,
\* noelements = hi - lo + 1 and strtype = T; struct_is_child is set exactly
\* when the descriptor was found in the type string and not in the path.
C28_ArrayDescriptor ==
    (phase = "out" /\ typeinfo # << >>) =>
    \A lo \in 0..MaxIndex, hi \in 0..MaxIndex, T \in ElementTypes, up \in BOOLEAN :
        (lo <= hi /\ Descriptor(lo, hi, T, up) \in {adsdata.path, adsdata.strtype}) =>
            /\ typeinfo[1].isarray
            /\ typeinfo[1].noelements = hi - lo + 1
            /\ typeinfo[1].strtype = T
            /\ typeinfo[1].struct_is_child
                  <=> (adsdata.path # Descriptor(lo, hi, T, up))

\* C29: block_read reads each value from its real place. For a group of
\* symbols of one index group that lie one after the other as the expansion
\* lays them, from any first offset (also one that is not a multiple of 4),
\* with alignment on or off, the position in the answer from which
\* block_read unpacks a symbol is symbol.offset - first.offset: when the PLC
\* has answered, every symbol's value is the one unpacked from the bytes
\* the PLC holds at the symbol's own offset. (Every byte of the PLC's memory
\* in reach differs from the others, so a value tells its position.)
C29_BlockReadRealPlace ==
    (/\ phase = "out" /\ called = "block_read" /\ Len(group.db) > 0
     /\ failed # "AdsException"
     /\ \A k \in 1..Len(group.db) : AdsType_size(group.db[k].type) > 0) =>
       /\ failed = ""
       /\ \A k \in 1..Len(group.db) :
             value[k] = << unpack(AdsType_formatter(group.db[k].type),
                                  PlcBytes(group.db[k].offset,
                                           AdsType_size(group.db[k].type))).v >>

\* C30: the size of a group always equals the number of symbols it holds,
\* after any sequence of insert and extend_list calls, also when a path
\* that is present is inserted again and when the group is extended with a
\* group that shares paths with it; so the number of records sum_read
\* announces (the index offset of its request) equals the number of symbols
\* it writes a 12-byte record for and decodes a value for.
C30_SizeIsCount ==
    /\ group.size = Len(group.db)
    /\ (called = "sum_read") =>
          /\ request[1].indexOffset = Len(group.db)
          /\ Len(request[1].data) = 12 * Len(group.db)

====
